---------------------------- MODULE Spec2Model ----------------------------
(***************************************************************************)
(* Model of the document discovery and extraction pipeline of the          *)
(* plinian-allocator-service: app/web_collect.py (safe_get, the PDF        *)
(* readers, unique_urls, trim_text, collect_web_text), app/web_search.py   *)
(* (search_google) and app/allocator_pipeline.py (run_allocator).          *)
(*                                                                         *)
(* Four specifications share the module:                                   *)
(*   SpecUnique  unique_urls applied to bounded URL lists                  *)
(*   SpecGet     one call of extract_text / fetch_page_and_find_pdfs,      *)
(*               with the safe_get it makes, against any server behaviour  *)
(*   SpecPdf     one call of extract_text_from_pdf on a bounded document   *)
(*   Spec        one run of run_allocator: search, collect_web_text        *)
(*               fetch by fetch, hand-off to the structuring step          *)
(***************************************************************************)
EXTENDS Integers, Sequences, FiniteSets, TLC

VARIABLES
    u_urls, u_out, u_pc,         \* unique_urls: input list, result, position
    p_doc, p_plumber, p_res, p_pc, \* extract_text_from_pdf: document, whether
                                 \* pdfplumber imported, result, position
    g_url, g_env, g_plumber, g_res, g_pc, \* one fetch: URL, server, whether
                                 \* pdfplumber imported, result, position
    m_page, m_key, m_plumber,    \* a run: the subject page, whether a search
                                 \* key is configured, whether pdfplumber imported
    m_disc, m_posts,             \* search_results, search POSTs sent
    m_pc, m_idx, m_ok,           \* position: loop, index in its list, answers so far
    m_about_urls, m_policy_urls, m_report_urls, m_pdf_urls, \* the four lists
    m_cands,                     \* the deduplicated PDF list as line 828 sorts it
    m_about_texts, m_policy_texts, m_report_texts, m_pdf_texts, \* texts kept
    m_log,                       \* the fetches made, in order: the loop, the URL,
                                 \* whether the URL had failed before in the run
    m_linked,                    \* the PDF links found on the pages fetched
    m_failed,                    \* the URLs whose fetch gave no text and that a
                                 \* later loop of the run still lists
    m_texts,                     \* the mapping handed to the structuring step
    s_kind, s_in, s_out, s_pc,   \* one sort: of PDF URLs or of snippets, the
                                 \* input list, the result, position
    q_first, q_second,           \* one discovery: what the searches of the first
                                 \* and of the second pass return, merged
    q_found, q_pages, q_pc       \* the result of find_investment_pages, the
                                 \* result of the discovery, position

uvars == <<u_urls, u_out, u_pc>>

pvars == <<p_doc, p_plumber, p_res, p_pc>>

gvars == <<g_url, g_env, g_plumber, g_res, g_pc>>

mvars == <<m_page, m_key, m_plumber, m_disc, m_posts, m_pc, m_idx, m_ok,
           m_about_urls, m_policy_urls, m_report_urls, m_pdf_urls, m_cands,
           m_about_texts, m_policy_texts, m_report_texts, m_pdf_texts, m_log, m_linked,
           m_failed, m_texts>>

svars == <<s_kind, s_in, s_out, s_pc>>

qvars == <<q_first, q_second, q_found, q_pages, q_pc>>

vars == <<u_urls, u_out, u_pc, p_doc, p_plumber, p_res, p_pc,
          g_url, g_env, g_plumber, g_res, g_pc,
          m_page, m_key, m_plumber, m_disc, m_posts, m_pc, m_idx, m_ok,
          m_about_urls, m_policy_urls, m_report_urls, m_pdf_urls, m_cands,
          m_about_texts, m_policy_texts, m_report_texts, m_pdf_texts, m_log, m_linked,
          m_failed, m_texts,
          s_kind, s_in, s_out, s_pc,
          q_first, q_second, q_found, q_pages, q_pc>>

Min(a, b) == IF a < b THEN a ELSE b

Max(a, b) == IF a > b THEN a ELSE b

\* the lists of at most n members of S
SeqsUpTo(S, n) == UNION {[1..k -> S] : k \in 0..n}

(***************************************************************************)
(* URLs.  A URL is a record: base ([scheme, host]), path (a guessed or     *)
(* given page path), name (the file name as a sequence of characters, used *)
(* by the substring tests on PDF URLs) and ext (".pdf" or "").  The empty  *)
(* string / None of the code is EmptyUrl.                                  *)
(***************************************************************************)
NoBase == [scheme |-> "", host |-> ""]

Https(h) == [scheme |-> "https", host |-> h]

EmptyUrl == [base |-> NoBase, path |-> "", name |-> <<>>, ext |-> ""]

PageUrl(b, p) == [base |-> b, path |-> p, name |-> <<>>, ext |-> ""]

PdfUrl(b, n) == [base |-> b, path |-> "", name |-> n, ext |-> ".pdf"]

\* `not u` of the code: None and "" are both falsy
IsEmptyUrl(u) == u = EmptyUrl

\* url.lower().endswith(".pdf")
EndsWithPdf(u) == u.ext = ".pdf"

(***************************************************************************)
(* unique_urls (web_collect.py 640-649): one pass with a `seen` set and an *)
(* `out` list; empty entries and entries already seen are skipped.         *)
(***************************************************************************)
RECURSIVE unique_loop(_, _, _, _)
unique_loop(urls, i, seen, out) ==
    IF i > Len(urls) THEN out
    ELSE LET u == urls[i] IN
         IF IsEmptyUrl(u) \/ u \in seen
         THEN unique_loop(urls, i + 1, seen, out)
         ELSE unique_loop(urls, i + 1, seen \cup {u}, Append(out, u))

\* the plausible slip: the last occurrence kept instead of the first
unique_urls_keep_last(urls) ==
    LET RECURSIVE loop(_, _)
        loop(i, out) ==
            IF i > Len(urls) THEN out
            ELSE LET u == urls[i] IN
                 IF IsEmptyUrl(u) \/ (\E j \in (i + 1)..Len(urls) : urls[j] = u)
                 THEN loop(i + 1, out)
                 ELSE loop(i + 1, Append(out, u))
    IN loop(1, <<>>)

unique_urls(urls) == unique_loop(urls, 1, {}, <<>>)

(***************************************************************************)
(* PDF documents.  A document is what the bytes decode to: whether each    *)
(* reader can open it and count its pages, its page count P, the pages     *)
(* that carry a table-of-contents line with a page number (toc: a set of   *)
(* <<page, number>>), the page that carries a section header (hdr, -1 for  *)
(* none), the pages whose extract_text() raises (err), whether the pages   *)
(* have no text (blank), the pages that carry secondary keywords (kwPages) *)
(* and how many each (kw), the pages that carry the phrase "asset          *)
(* allocation" (alloc) and the length of a page's text (pageLen).  empty   *)
(* is b"".  A page's text is its text after the table rows are appended.   *)
(***************************************************************************)
PageErr(doc, i) == i \in doc.err

\* the number captured by the first TOC pattern matching the page, or -1
PageToc(doc, i) ==
    IF ~doc.blank /\ \E e \in doc.toc : e[1] = i
    THEN (CHOOSE e \in doc.toc : e[1] = i)[2]
    ELSE -1

\* whether the page text holds one of the four section-header phrases
PageHdr(doc, i) == ~doc.blank /\ (i = doc.hdr \/ PageToc(doc, i) >= 0)

\* text.strip() is non-empty
PageHasText(doc, i) == ~doc.blank

(***************************************************************************)
(* _score_page_relevance (120-137): 5 per section marker present, 1 per    *)
(* secondary keyword present.  A TOC line or a header holds the marker     *)
(* "investment section"; "asset allocation" is a marker and a keyword.     *)
(***************************************************************************)
MARKER_WEIGHT == 5

KEYWORD_WEIGHT == 1

HIGH_VALUE_SCORE == 3

\* the entries of INVESTMENT_SECTION_MARKERS that stand in the page's text
PageMarkers(doc, i) ==
    (IF PageHdr(doc, i) THEN 1 ELSE 0) + (IF i \in doc.alloc THEN 1 ELSE 0)

\* the entries of HIGH_VALUE_KEYWORDS that stand in the page's text
PageKeywords(doc, i) ==
    (IF i \in doc.alloc THEN 1 ELSE 0) + (IF i \in doc.kwPages THEN doc.kw ELSE 0)

\* the mutant of the weights: a marker counts like a keyword
score_page_relevance_unweighted(doc, i) ==
    IF ~PageHasText(doc, i) THEN 0
    ELSE PageMarkers(doc, i) + PageKeywords(doc, i)

score_page_relevance(doc, i) ==
    IF ~PageHasText(doc, i) THEN 0
    ELSE MARKER_WEIGHT * PageMarkers(doc, i) + KEYWORD_WEIGHT * PageKeywords(doc, i)

(***************************************************************************)
(* _find_investment_section_pages (140-234).  None is -1.                  *)
(***************************************************************************)
TOC_PAGES == 15

TOC_OFFSET == 3

SECTION_LENGTH == 40

SCAN_START == 30

SCAN_END == 120

\* the TOC loop (158-197): a page whose read raises is skipped; a match sets
\* investment_start = max(0, page_num - 3); the loop breaks once it is truthy
RECURSIVE toc_scan(_, _, _, _)
toc_scan(doc, i, n, start) ==
    IF i >= n THEN [start |-> start, reads |-> n]
    ELSE IF PageErr(doc, i) THEN toc_scan(doc, i + 1, n, start)
    ELSE LET m == PageToc(doc, i)
             s == IF m >= 0 THEN Max(0, m - TOC_OFFSET) ELSE start
         IN IF s > 0 THEN [start |-> s, reads |-> i + 1]
            ELSE toc_scan(doc, i + 1, n, s)

\* the header loop (209-231): it returns at the first readable page holding a
\* header phrase, having read every page from `from` up to it
header_scan(doc, from, n) ==
    LET hits == {i \in from..(n - 1) : ~PageErr(doc, i) /\ PageHdr(doc, i)} IN
    IF hits = {} THEN [start |-> -1, reads |-> Max(0, n - from)]
    ELSE LET first == CHOOSE i \in hits : \A j \in hits : i <= j
         IN [start |-> first, reads |-> first - from + 1]

\* (None, None), before any page is read
NoLoc == [found |-> FALSE, start |-> -1, end |-> -1, via |-> "none", reads |-> 0]

find_investment_section_pages(doc, total_pages) ==
    LET t == toc_scan(doc, 0, Min(TOC_PAGES, total_pages), -1) IN
    IF t.start > 0
    THEN [found |-> TRUE, start |-> t.start,
          end |-> Min(t.start + SECTION_LENGTH, total_pages),
          via |-> "toc", reads |-> t.reads]
    ELSE LET from == Min(SCAN_START, total_pages)
             h == header_scan(doc, from, Min(SCAN_END, total_pages))
         IN IF h.start >= 0
            THEN [found |-> TRUE, start |-> h.start,
                  end |-> Min(h.start + SECTION_LENGTH, total_pages),
                  via |-> "header", reads |-> t.reads + h.reads]
            ELSE [found |-> FALSE, start |-> -1, end |-> -1,
                  via |-> "none", reads |-> t.reads + h.reads]

(***************************************************************************)
(* The page set of the table-aware reader (257-291): the first 15 pages,   *)
(* the located section or the sampled ranges, the last 5 pages; sorted and *)
(* cut to max_pages.                                                       *)
(***************************************************************************)
PLUMBER_MAX_PAGES == 100

PYPDF_MAX_PAGES == 60

FIRST_PAGES == 15

LAST_PAGES == 5

\* range(a, b, step)
Range(a, b, step) == {i \in a..(b - 1) : (i - a) % step = 0}

\* the mutant of the sampling: every range sampled like the first
SampledPages_every_third(total_pages) ==
    IF 15 < total_pages THEN Range(15, Min(150, total_pages), 3) ELSE {}

\* sample_ranges (273-284): the loop breaks at the first range starting past the end
SampledPages(total_pages) ==
    (IF 15 < total_pages THEN Range(15, Min(50, total_pages), 3) ELSE {})
    \cup (IF 50 < total_pages THEN Range(50, Min(100, total_pages), 2) ELSE {})
    \cup (IF 100 < total_pages THEN Range(100, Min(150, total_pages), 4) ELSE {})

\* sorted(S) for a set of page indices within lo..hi
RECURSIVE ascending(_, _, _)
ascending(S, lo, hi) ==
    IF lo > hi THEN <<>>
    ELSE IF lo = hi THEN (IF lo \in S THEN <<lo>> ELSE <<>>)
    ELSE LET mid == (lo + hi) \div 2
         IN ascending(S, lo, mid) \o ascending(S, mid + 1, hi)

SeqRange(q) == {q[k] : k \in 1..Len(q)}

\* the mutant of the cut: every selected page is kept
first_sorted_uncut(S, max_pages, total_pages) == S

\* sorted(pages_to_read)[:max_pages]
SortedCut(S, max_pages, total_pages) ==
    LET q == ascending(S, 0, total_pages) IN
    SeqRange(SubSeq(q, 1, Min(max_pages, Len(q))))

plumber_pages_to_read(loc, total_pages, max_pages) ==
    SortedCut(
        Range(0, Min(FIRST_PAGES, total_pages), 1)
        \cup (IF loc.found THEN Range(loc.start, loc.end, 1) ELSE SampledPages(total_pages))
        \cup Range(Max(0, total_pages - LAST_PAGES), total_pages, 1),
        max_pages, total_pages)

\* the mutant of the fallback selection: the last 5 pages, as in the other reader
pypdf_pages_last_five(total_pages, max_pages) ==
    IF total_pages <= max_pages THEN Range(0, total_pages, 1)
    ELSE LET mid_start == Max(15, total_pages \div 4)
             mid_end == Min(total_pages, (3 * total_pages) \div 4)
             step == Max(1, (mid_end - mid_start) \div 30)
         IN SortedCut(
                Range(0, Min(15, total_pages), 1)
                \cup Range(mid_start, mid_end, step)
                \cup Range(Max(0, total_pages - 5), total_pages, 1),
                max_pages, total_pages)

\* the fallback reader's page list (351-370)
pypdf_pages_to_read(total_pages, max_pages) ==
    IF total_pages <= max_pages THEN Range(0, total_pages, 1)
    ELSE LET mid_start == Max(15, total_pages \div 4)
             mid_end == Min(total_pages, (3 * total_pages) \div 4)
             step == Max(1, (mid_end - mid_start) \div 30)
         IN SortedCut(
                Range(0, Min(15, total_pages), 1)
                \cup Range(mid_start, mid_end, step)
                \cup Range(Max(0, total_pages - 10), total_pages, 1),
                max_pages, total_pages)

(***************************************************************************)
(* Reader results.  raised: an exception left the function; items: the     *)
(* pages of the output text in output order, each with whether it carries  *)
(* a [Page n] tag; len: the length of the text; reads: page-text reads of  *)
(* the extraction loop; locReads: page-text reads of the locator; loc: what *)
(* the locator returned; pages: the pages the extraction loop read.        *)
(***************************************************************************)
NoText == [raised |-> FALSE, items |-> <<>>, len |-> 0, reads |-> 0,
           locReads |-> 0, pages |-> {}, opened |-> FALSE, loc |-> NoLoc]

Raised == [NoText EXCEPT !.raised = TRUE, !.opened = TRUE]

\* len("\n\n".join(texts)): each text is a page's text, a tagged one preceded
\* by "[Page n]\n", 8 characters and the digits of n
JoinedLen(doc, items) ==
    IF Len(items) = 0 THEN 0
    ELSE LET tagged == {k \in 1..Len(items) : items[k].tagged}
             over(m) == Cardinality({k \in tagged : items[k].page + 1 >= m})
         IN Len(items) * doc.pageLen + 2 * (Len(items) - 1)
            + 9 * Cardinality(tagged) + over(10) + over(100) + over(1000)

(***************************************************************************)
(* extract_text_from_pdf_pdfplumber (237-335).  The open is guarded by a   *)
(* try; len(pdf.pages) at line 254 is not, so a failure to count the pages *)
(* leaves the function as an exception.  A page whose read raises is       *)
(* skipped; a page without text gives no item.                             *)
(***************************************************************************)
extract_text_from_pdf_pdfplumber(doc, has_plumber, max_pages) ==
    IF doc.empty \/ ~has_plumber THEN NoText
    ELSE IF ~doc.plumberOpen THEN NoText
    ELSE IF ~doc.plumberCount THEN Raised
    ELSE LET total_pages == doc.P
             loc == find_investment_section_pages(doc, total_pages)
             pages == plumber_pages_to_read(loc, total_pages, max_pages)
             texted == {i \in pages : ~PageErr(doc, i) /\ PageHasText(doc, i)}
             high == {i \in texted : score_page_relevance(doc, i) >= HIGH_VALUE_SCORE}
             hseq == ascending(high, 0, total_pages)
             rseq == ascending(texted \ high, 0, total_pages)
             items == [k \in 1..Len(hseq) |-> [page |-> hseq[k], tagged |-> TRUE]]
                      \o [k \in 1..Len(rseq) |-> [page |-> rseq[k], tagged |-> FALSE]]
         IN [raised |-> FALSE, items |-> items, len |-> JoinedLen(doc, items),
             reads |-> Cardinality(pages), locReads |-> loc.reads,
             pages |-> pages, opened |-> TRUE, loc |-> loc]

(***************************************************************************)
(* extract_text_from_pdf_pypdf (338-381): the same shape, without locator, *)
(* scoring or tags; len(reader.pages) at line 348 is outside the try.      *)
(***************************************************************************)
extract_text_from_pdf_pypdf(doc, max_pages) ==
    IF doc.empty THEN NoText
    ELSE IF ~doc.pypdfOpen THEN NoText
    ELSE IF ~doc.pypdfCount THEN Raised
    ELSE LET total_pages == doc.P
             pages == pypdf_pages_to_read(total_pages, max_pages)
             texted == {i \in pages : ~PageErr(doc, i) /\ PageHasText(doc, i)}
             tseq == ascending(texted, 0, total_pages)
             items == [k \in 1..Len(tseq) |-> [page |-> tseq[k], tagged |-> FALSE]]
         IN [raised |-> FALSE, items |-> items, len |-> JoinedLen(doc, items),
             reads |-> Cardinality(pages), locReads |-> 0,
             pages |-> pages, opened |-> TRUE, loc |-> NoLoc]

(***************************************************************************)
(* extract_text_from_pdf (384-396): the table-aware reader when pdfplumber *)
(* imported, and the fallback reader when it did not or gave no text.  The *)
(* result records what each reader did.                                    *)
(***************************************************************************)
extract_text_from_pdf(doc, has_plumber) ==
    LET none == [raised |-> FALSE, text |-> NoText, plumber |-> NoText,
                 pypdf |-> NoText, usedPlumber |-> FALSE, usedPypdf |-> FALSE]
    IN IF doc.empty THEN none
       ELSE LET a == IF has_plumber
                     THEN extract_text_from_pdf_pdfplumber(doc, has_plumber, PLUMBER_MAX_PAGES)
                     ELSE NoText
            IN IF has_plumber /\ a.raised
               THEN [none EXCEPT !.raised = TRUE, !.plumber = a, !.usedPlumber = TRUE]
               ELSE IF has_plumber /\ a.len > 0
               THEN [none EXCEPT !.text = a, !.plumber = a, !.usedPlumber = TRUE]
               ELSE LET b == extract_text_from_pdf_pypdf(doc, PYPDF_MAX_PAGES)
                    IN [raised |-> b.raised,
                        text |-> IF b.raised THEN NoText ELSE b,
                        plumber |-> a, pypdf |-> b,
                        usedPlumber |-> has_plumber, usedPypdf |-> TRUE]

(***************************************************************************)
(* SpecPdf: extract_text_from_pdf on every document of DocSet.             *)
(***************************************************************************)
MaxPages == 200

PageCounts == {0, 1, 12, 40, 61, 118, 130, MaxPages}

TocChoices ==
    {{}} \cup {{<<p, n>>} : p \in {0, 5}, n \in {3, 45, 500}}
    \cup {{<<0, 3>>, <<5, 45>>}}

\* <<kw, kwPages, alloc>>: no keyword anywhere; two, or three, keywords on
\* three pages; "asset allocation" on two pages, one of them with three
\* more keywords
ContentChoices ==
    {<<0, {}, {}>>, <<2, {2, 7, 36}, {}>>, <<3, {2, 7, 36}, {}>>, <<3, {7}, {7, 11}>>}

DocSet ==
    {[empty |-> FALSE, plumberOpen |-> o[1], plumberCount |-> o[2],
      pypdfOpen |-> o[3], pypdfCount |-> o[4], P |-> P, toc |-> t, hdr |-> h,
      err |-> e, blank |-> b, kw |-> c[1], kwPages |-> c[2], alloc |-> c[3],
      pageLen |-> 400] :
        o \in {<<TRUE, TRUE, TRUE, TRUE>>, <<FALSE, TRUE, TRUE, TRUE>>,
               <<FALSE, TRUE, FALSE, TRUE>>, <<TRUE, FALSE, TRUE, TRUE>>,
               <<FALSE, TRUE, TRUE, FALSE>>},
        P \in PageCounts, t \in TocChoices, h \in {-1, 35, 119, 125},
        e \in {{}, {5}, 0..(MaxPages - 1)}, b \in BOOLEAN, c \in ContentChoices}
    \cup {[empty |-> TRUE, plumberOpen |-> FALSE, plumberCount |-> FALSE,
           pypdfOpen |-> FALSE, pypdfCount |-> FALSE, P |-> 0, toc |-> {}, hdr |-> -1,
           err |-> {}, blank |-> TRUE, kw |-> 0, kwPages |-> {}, alloc |-> {}, pageLen |-> 0]}

SortIdle ==
    /\ s_kind = "none"
    /\ s_in = <<>>
    /\ s_out = <<>>
    /\ s_pc = "idle"

SearchIdle ==
    /\ q_first = <<>>
    /\ q_second = <<>>
    /\ q_found = [set |-> FALSE]
    /\ q_pages = [set |-> FALSE]
    /\ q_pc = "idle"

RunIdle ==
    /\ m_page = [set |-> FALSE]
    /\ m_key = FALSE
    /\ m_plumber = FALSE
    /\ m_disc = [set |-> FALSE]
    /\ m_posts = 0
    /\ m_pc = "idle"
    /\ m_idx = 0
    /\ m_ok = 0
    /\ m_about_urls = <<>> /\ m_policy_urls = <<>> /\ m_report_urls = <<>>
    /\ m_pdf_urls = <<>> /\ m_cands = <<>>
    /\ m_about_texts = <<>> /\ m_policy_texts = <<>> /\ m_report_texts = <<>>
    /\ m_pdf_texts = <<>>
    /\ m_log = <<>>
    /\ m_linked = {} /\ m_failed = {}
    /\ m_texts = <<>>

GetIdle ==
    /\ g_url = EmptyUrl
    /\ g_env = [clientExc |-> FALSE]
    /\ g_plumber = FALSE
    /\ g_res = [raised |-> FALSE]
    /\ g_pc = "idle"

PdfIdle ==
    /\ p_doc = [empty |-> TRUE]
    /\ p_plumber = FALSE
    /\ p_res = [raised |-> FALSE]
    /\ p_pc = "idle"

InitPdf ==
    /\ RunIdle
    /\ SortIdle
    /\ SearchIdle
    /\ u_urls = <<>> /\ u_out = <<>> /\ u_pc = "idle"
    /\ GetIdle
    /\ p_doc \in DocSet
    /\ p_plumber \in BOOLEAN
    /\ p_res = [raised |-> FALSE]
    /\ p_pc = "call"

ExtractPdfCall ==
    /\ p_pc = "call"
    /\ p_res' = extract_text_from_pdf(p_doc, p_plumber)
    /\ p_pc' = "done"
    /\ UNCHANGED <<p_doc, p_plumber, uvars, gvars, mvars, svars, qvars>>

(***************************************************************************)
(* Servers.  What the network answers to one safe_get: whether building    *)
(* the client raises, the HEAD response (raised, or its content-length     *)
(* header: absent, an integer, or text int() rejects) and the GET response *)
(* (raised, or a status, a content-type header and a payload).  A payload  *)
(* is HTML markup, a PDF document or nothing, whatever the header says.    *)
(***************************************************************************)
MAX_PDF_SIZE_MB == 50

MAX_PDF_BYTES == MAX_PDF_SIZE_MB * 1024 * 1024

HTTP_OK == 200

EmptyDoc ==
    [empty |-> TRUE, plumberOpen |-> FALSE, plumberCount |-> FALSE,
     pypdfOpen |-> FALSE, pypdfCount |-> FALSE, P |-> 0, toc |-> {}, hdr |-> -1,
     err |-> {}, blank |-> TRUE, kw |-> 0, kwPages |-> {}, alloc |-> {}, pageLen |-> 0]

\* bytes that are no PDF: neither reader opens them
NotADoc == [EmptyDoc EXCEPT !.empty = FALSE]

\* markup: what trafilatura.extract does with it ("ok": a text of len
\* characters of which ws are surplus whitespace; "none": None; "raise": an
\* exception) and the href values ending in .pdf it holds
NoHtml == [extract |-> "none", len |-> 0, ws |-> 0, hrefs |-> {}]

EmptyPayload == [kind |-> "empty", size |-> 0, doc |-> EmptyDoc, html |-> NoHtml]

HtmlPayload(size, html) == [kind |-> "html", size |-> size, doc |-> NotADoc, html |-> html]

PdfPayload(size, doc) == [kind |-> "pdf", size |-> size, doc |-> doc, html |-> NoHtml]

\* content_type.lower()
Lower(ct) == IF ct = "Application/PDF" THEN "application/pdf" ELSE ct

\* "pdf" in content_type
HasPdf(ct) == ct \in {"application/pdf", "application/x-pdf"}

(***************************************************************************)
(* safe_get (43-73).  The result is (content_type, body) with the requests *)
(* sent, in order.  safe_get_body is the try block: exc tells that an      *)
(* exception left it; safe_get adds the handler of lines 71-73.            *)
(***************************************************************************)
EmptyStr == [bytes |-> FALSE, payload |-> EmptyPayload]

GetFailure(reqs) == [exc |-> FALSE, ct |-> "", body |-> EmptyStr, reqs |-> reqs]

GetException(reqs) == [exc |-> TRUE, ct |-> "", body |-> EmptyStr, reqs |-> reqs]

\* the mutant of the probe: the size is not compared
HeadNeverTooLarge(head) == FALSE

\* lines 55-62: the inner try; a HEAD that raises, or a content-length int()
\* rejects, lets the call continue
HeadTooLarge(head) ==
    /\ ~head.exc
    /\ head.cl.kind = "int"
    /\ head.cl.val > MAX_PDF_BYTES

\* the mutant of the inner try: a failing HEAD reaches the outer handler
safe_get_body_head_unguarded(url, env) ==
    IF env.clientExc THEN GetException(<<>>)
    ELSE IF EndsWithPdf(url) /\ (env.head.exc \/ env.head.cl.kind = "garbage")
         THEN GetException(<<"HEAD">>)
    ELSE IF EndsWithPdf(url) /\ HeadTooLarge(env.head) THEN GetFailure(<<"HEAD">>)
    ELSE LET reqs == (IF EndsWithPdf(url) THEN <<"HEAD">> ELSE <<>>) \o <<"GET">> IN
         IF env.get.exc THEN GetException(reqs)
         ELSE IF env.get.status # HTTP_OK THEN GetFailure(reqs)
         ELSE [exc |-> FALSE, ct |-> Lower(env.get.ctype),
               body |-> [bytes |-> HasPdf(Lower(env.get.ctype)) \/ EndsWithPdf(url),
                         payload |-> env.get.payload],
               reqs |-> reqs]

safe_get_body(url, env) ==
    IF env.clientExc THEN GetException(<<>>)
    ELSE IF EndsWithPdf(url) /\ HeadTooLarge(env.head) THEN GetFailure(<<"HEAD">>)
    ELSE LET reqs == (IF EndsWithPdf(url) THEN <<"HEAD">> ELSE <<>>) \o <<"GET">> IN
         IF env.get.exc THEN GetException(reqs)
         ELSE IF env.get.status # HTTP_OK THEN GetFailure(reqs)
         ELSE [exc |-> FALSE, ct |-> Lower(env.get.ctype),
               body |-> [bytes |-> HasPdf(Lower(env.get.ctype)) \/ EndsWithPdf(url),
                         payload |-> env.get.payload],
               reqs |-> reqs]

safe_get(url, env) ==
    IF IsEmptyUrl(url) THEN GetFailure(<<>>)
    ELSE LET r == safe_get_body(url, env) IN
         IF r.exc THEN GetFailure(r.reqs) ELSE r

(***************************************************************************)
(* Texts.  An extracted text is [kind, len, ws]: where it came from ("pdf" *)
(* or "html"), its length, and how many of its characters are surplus      *)
(* whitespace that re.sub(r"\s+", " ") removes.  "" has len 0.             *)
(***************************************************************************)
EmptyText == [kind |-> "none", len |-> 0, ws |-> 0]

\* extract_text_from_html (78-86)
extract_text_from_html(payload) ==
    IF payload.size = 0 THEN EmptyText
    ELSE IF payload.html.extract = "ok" /\ payload.html.len > 0
         THEN [kind |-> "html", len |-> payload.html.len, ws |-> payload.html.ws]
         ELSE EmptyText

\* the text of a PDF result: the "\n\n" between two pages is one surplus character
PdfTextOf(r) ==
    IF r.text.len = 0 THEN EmptyText
    ELSE [kind |-> "pdf", len |-> r.text.len, ws |-> Len(r.text.items) - 1]

\* the bytes handed to extract_text_from_pdf, as a document
AsDoc(payload) == IF payload.size = 0 THEN EmptyDoc ELSE payload.doc

\* find_pdf_links_in_html (421-446): absolute hrefs as they are, the others
\* joined to the page's URL; list(set(...)) leaves the order open
find_pdf_links_in_html(payload, url) ==
    IF payload.size = 0 THEN {}
    ELSE {PdfUrl(IF h.abs THEN h.base ELSE url.base, h.name) : h \in payload.html.hrefs}

(***************************************************************************)
(* extract_text (399-418) and fetch_page_and_find_pdfs (449-474).  The     *)
(* result holds the text, the PDF links found, the safe_get made, whether  *)
(* the body was handed to extract_text_from_pdf, and whether an exception  *)
(* left the function.                                                      *)
(***************************************************************************)
BodyIsEmptyStr(body) == ~body.bytes /\ body.payload.size = 0

\* the one member of a one-member set (binds a computed value to a name)
The(S) == CHOOSE x \in S : TRUE

\* the mutant of the guard: only an empty body ends the call early
AfterGet_any_content_type(g, url, has_plumber, with_links) ==
    LET none == [raised |-> FALSE, text |-> EmptyText, links |-> {}, get |-> g,
                 pdfCalled |-> FALSE]
    IN IF BodyIsEmptyStr(g.body) THEN none
       ELSE IF HasPdf(g.ct) \/ EndsWithPdf(url)
       THEN The({[none EXCEPT !.raised = r.raised, !.pdfCalled = TRUE,
                              !.text = IF r.raised THEN EmptyText ELSE PdfTextOf(r)] :
                   r \in {The({extract_text_from_pdf(d, has_plumber) :
                                 d \in {AsDoc(g.body.payload)}})}})
       ELSE [none EXCEPT !.text = extract_text_from_html(g.body.payload),
                         !.links = IF with_links
                                   THEN find_pdf_links_in_html(g.body.payload, url)
                                   ELSE {}]

\* lines 402-418 and 455-474, on the result g of safe_get
AfterGet(g, url, has_plumber, with_links) ==
    LET none == [raised |-> FALSE, text |-> EmptyText, links |-> {}, get |-> g,
                 pdfCalled |-> FALSE]
    IN IF g.ct = "" \/ BodyIsEmptyStr(g.body) THEN none
       ELSE IF HasPdf(g.ct) \/ EndsWithPdf(url)
       THEN The({[none EXCEPT !.raised = r.raised, !.pdfCalled = TRUE,
                              !.text = IF r.raised THEN EmptyText ELSE PdfTextOf(r)] :
                   r \in {The({extract_text_from_pdf(d, has_plumber) :
                                 d \in {AsDoc(g.body.payload)}})}})
       ELSE [none EXCEPT !.text = extract_text_from_html(g.body.payload),
                         !.links = IF with_links
                                   THEN find_pdf_links_in_html(g.body.payload, url)
                                   ELSE {}]

Fetched(url, env, has_plumber, with_links) ==
    The({AfterGet(g, url, has_plumber, with_links) : g \in {safe_get(url, env)}})

extract_text(url, env, has_plumber) == Fetched(url, env, has_plumber, FALSE)

fetch_page_and_find_pdfs(url, env, has_plumber) == Fetched(url, env, has_plumber, TRUE)

(***************************************************************************)
(* SpecGet: one call of extract_text or fetch_page_and_find_pdfs on an     *)
(* empty URL, a page URL or a .pdf URL, against every server of EnvSet.    *)
(***************************************************************************)
SmallDoc(open, count, blank) ==
    [empty |-> FALSE, plumberOpen |-> open, plumberCount |-> count,
     pypdfOpen |-> open, pypdfCount |-> count, P |-> 3, toc |-> {}, hdr |-> -1,
     err |-> {}, blank |-> blank, kw |-> 0, kwPages |-> {}, alloc |-> {},
     pageLen |-> 400]

SmallHtml(n, hrefs) == [extract |-> "ok", len |-> n, ws |-> 3, hrefs |-> hrefs]

HeadSet ==
    {[exc |-> TRUE, cl |-> [kind |-> "absent", val |-> 0]]}
    \cup {[exc |-> FALSE, cl |-> c] :
            c \in {[kind |-> "absent", val |-> 0], [kind |-> "garbage", val |-> 0],
                   [kind |-> "int", val |-> 2048], [kind |-> "int", val |-> MAX_PDF_BYTES],
                   [kind |-> "int", val |-> MAX_PDF_BYTES + 1]}}

PayloadSet ==
    {EmptyPayload,
     HtmlPayload(2048, SmallHtml(700, {})),
     HtmlPayload(2048, SmallHtml(700, {[abs |-> FALSE, base |-> NoBase, name |-> <<"r">>]})),
     HtmlPayload(2048, [SmallHtml(0, {}) EXCEPT !.extract = "none"]),
     HtmlPayload(2048, [SmallHtml(0, {}) EXCEPT !.extract = "raise"]),
     PdfPayload(2048, SmallDoc(TRUE, TRUE, FALSE)),
     PdfPayload(2048, SmallDoc(TRUE, TRUE, TRUE)),
     PdfPayload(2048, SmallDoc(TRUE, FALSE, FALSE)),
     PdfPayload(2048, SmallDoc(FALSE, TRUE, FALSE)),
     PdfPayload(MAX_PDF_BYTES + 1, SmallDoc(TRUE, TRUE, FALSE))}

GetSet ==
    {[exc |-> TRUE, status |-> 0, ctype |-> "", payload |-> EmptyPayload]}
    \cup {[exc |-> FALSE, status |-> s, ctype |-> c, payload |-> p] :
            s \in {HTTP_OK, 404}, c \in {"", "text/html", "Application/PDF"},
            p \in PayloadSet}

EnvSet == {[clientExc |-> x, head |-> h, get |-> g] :
            x \in BOOLEAN, h \in HeadSet, g \in GetSet}

GetUrls == {EmptyUrl, PageUrl(Https("a.org"), "/reports"), PdfUrl(Https("a.org"), <<"r">>)}

InitGet ==
    /\ RunIdle
    /\ SortIdle
    /\ SearchIdle
    /\ u_urls = <<>> /\ u_out = <<>> /\ u_pc = "idle"
    /\ PdfIdle
    /\ g_url \in GetUrls
    /\ g_env \in EnvSet
    /\ g_plumber \in BOOLEAN
    /\ g_res = [raised |-> FALSE]
    /\ g_pc = "call"

ExtractTextCall ==
    /\ g_pc = "call"
    /\ g_res' = extract_text(g_url, g_env, g_plumber)
    /\ g_pc' = "extract_text"
    /\ UNCHANGED <<g_url, g_env, g_plumber, uvars, pvars, mvars, svars, qvars>>

FetchPageCall ==
    /\ g_pc = "call"
    /\ g_res' = fetch_page_and_find_pdfs(g_url, g_env, g_plumber)
    /\ g_pc' = "fetch_page_and_find_pdfs"
    /\ UNCHANGED <<g_url, g_env, g_plumber, uvars, pvars, mvars, svars, qvars>>

NextGet == ExtractTextCall \/ FetchPageCall

SpecGet == InitGet /\ [][NextGet]_vars


GetDone == g_pc \in {"extract_text", "fetch_page_and_find_pdfs"}

GetFailed(g) == g.ct = "" /\ g.body = EmptyStr

Sent(reqs, verb) == \E i \in 1..Len(reqs) : reqs[i] = verb

DeclaredTooLarge(env) ==
    ~env.head.exc /\ env.head.cl.kind = "int" /\ env.head.cl.val > MAX_PDF_BYTES

(***************************************************************************)
(* C3: for a URL ending in .pdf, safe_get sends the HEAD probe before any  *)
(* GET; when the HEAD response reports a content-length above 50 MB no GET *)
(* is sent in that call and the call returns ("", "").                     *)
(***************************************************************************)
C3_HeadProbeBeforeGet ==
    (GetDone /\ EndsWithPdf(g_url)) =>
        LET reqs == g_res.get.reqs IN
        /\ \A i \in 1..Len(reqs) :
              reqs[i] = "GET" => \E j \in 1..(i - 1) : reqs[j] = "HEAD"
        /\ (~g_env.clientExc /\ DeclaredTooLarge(g_env)) =>
              /\ reqs = <<"HEAD">>
              /\ GetFailed(g_res.get)

\* a .pdf URL whose HEAD declares one byte over the cap while the server would
\* have served a PDF on GET
C3_Witness ==
    /\ GetDone /\ EndsWithPdf(g_url)
    /\ ~g_env.clientExc /\ DeclaredTooLarge(g_env)
    /\ ~g_env.get.exc /\ g_env.get.status = HTTP_OK /\ g_env.get.payload.kind = "pdf"
    /\ g_res.get.reqs = <<"HEAD">>

(***************************************************************************)
(* C4 as stated: for every fetch whose payload is treated as a PDF (the    *)
(* URL ends in .pdf or the content-type holds "pdf"), if the declared or   *)
(* observed size exceeds 50 MB the body is not handed to PDF extraction    *)
(* and the URL gives no text.                                              *)
(***************************************************************************)
C4_NoOversizePdfExtracted ==
    GetDone =>
        LET treated == ~IsEmptyUrl(g_url) /\ ~g_env.clientExc
                       /\ (EndsWithPdf(g_url) \/ HasPdf(Lower(g_env.get.ctype)))
            declared == EndsWithPdf(g_url) /\ DeclaredTooLarge(g_env)
            observed == ~g_env.get.exc /\ g_env.get.payload.size > MAX_PDF_BYTES
        IN (treated /\ (declared \/ observed)) =>
              (~g_res.pdfCalled /\ g_res.text.len = 0)

(***************************************************************************)
(* C5: safe_get never raises.  An empty URL, an exception of the client,   *)
(* of the GET, or a status other than 200 give ("", ""); a HEAD probe that *)
(* fails does not fail the call: the GET is still sent and decides.        *)
(***************************************************************************)
C5_SafeGetNeverRaises ==
    GetDone =>
        LET g == g_res.get
            headFailed == EndsWithPdf(g_url) /\ ~g_env.clientExc
                          /\ (g_env.head.exc \/ g_env.head.cl.kind = "garbage")
        IN /\ ~g.exc
           /\ IsEmptyUrl(g_url) => (GetFailed(g) /\ g.reqs = <<>>)
           /\ g_env.clientExc => GetFailed(g)
           /\ (Sent(g.reqs, "GET") /\ (g_env.get.exc \/ g_env.get.status # HTTP_OK))
                 => GetFailed(g)
           /\ headFailed =>
                 /\ g.reqs = <<"HEAD", "GET">>
                 /\ (~g_env.get.exc /\ g_env.get.status = HTTP_OK) =>
                       (g.ct = Lower(g_env.get.ctype) /\ g.body.payload = g_env.get.payload)

\* a .pdf URL whose HEAD raises and whose GET then succeeds with a PDF
C5_Witness ==
    /\ GetDone /\ EndsWithPdf(g_url)
    /\ ~g_env.clientExc /\ g_env.head.exc
    /\ g_res.get.reqs = <<"HEAD", "GET">>
    /\ HasPdf(g_res.get.ct) /\ g_res.get.body.payload.kind = "pdf"

\* the GET was answered with status 200 and a body, without a content-type
NoContentType ==
    /\ GetDone /\ ~IsEmptyUrl(g_url) /\ ~g_env.clientExc
    /\ Sent(g_res.get.reqs, "GET")
    /\ ~g_env.get.exc /\ g_env.get.status = HTTP_OK
    /\ g_env.get.ctype = ""
    /\ g_env.get.payload.size > 0

\* C30: a fetch answered with status 200 and a non-empty body but without a
\* content-type gives what a failed fetch gives: no text, no PDF links, no
\* PDF extraction and no exception, also when the URL ends in .pdf.
C30_NoContentTypeNoText ==
    NoContentType =>
        /\ g_res.text = EmptyText
        /\ g_res.links = {}
        /\ ~g_res.pdfCalled
        /\ ~g_res.raised

\* a .pdf URL answered with a readable PDF and no content-type
C30_Witness ==
    /\ NoContentType
    /\ EndsWithPdf(g_url)
    /\ g_env.get.payload = PdfPayload(2048, SmallDoc(TRUE, TRUE, FALSE))
    /\ g_res.get.reqs = <<"HEAD", "GET">>
    /\ g_res.text = EmptyText

(***************************************************************************)
(* Strings.  The file name of a PDF URL is a sequence of characters, so    *)
(* that `needle in url_lower` is a substring test.  The hosts and paths of *)
(* the model hold none of the needles.                                     *)
(***************************************************************************)
LowerChar(c) ==
    CASE c = "A" -> "a" [] c = "B" -> "b" [] c = "C" -> "c" [] c = "D" -> "d"
      [] c = "E" -> "e" [] c = "F" -> "f" [] c = "G" -> "g" [] c = "H" -> "h"
      [] c = "I" -> "i" [] c = "J" -> "j" [] c = "K" -> "k" [] c = "L" -> "l"
      [] c = "M" -> "m" [] c = "N" -> "n" [] c = "O" -> "o" [] c = "P" -> "p"
      [] c = "Q" -> "q" [] c = "R" -> "r" [] c = "S" -> "s" [] c = "T" -> "t"
      [] c = "U" -> "u" [] c = "V" -> "v" [] c = "W" -> "w" [] c = "X" -> "x"
      [] c = "Y" -> "y" [] c = "Z" -> "z"
      [] OTHER -> c

\* str.lower()
LowerStr(s) == [i \in 1..Len(s) |-> LowerChar(s[i])]

\* needle in s
Contains(s, needle) ==
    \E i \in 1..(Len(s) - Len(needle) + 1) :
        \A k \in 1..Len(needle) : s[i + k - 1] = needle[k]

\* s.replace("-", "").replace("_", "")
IsNotJoiner(c) == c \notin {"-", "_"}

Unjoined(s) == SelectSeq(s, IsNotJoiner)

K_fy25 == <<"f", "y", "2", "5">>

K_fy24 == <<"f", "y", "2", "4">>

K_2025 == <<"2", "0", "2", "5">>

K_2024 == <<"2", "0", "2", "4">>

K_fy23 == <<"f", "y", "2", "3">>

K_2023 == <<"2", "0", "2", "3">>

K_fy22 == <<"f", "y", "2", "2">>

K_2022 == <<"2", "0", "2", "2">>

K_board == <<"b", "o", "a", "r", "d">>

K_book == <<"b", "o", "o", "k">>

K_annualreportbook == <<"a", "n", "n", "u", "a", "l", "r", "e", "p", "o", "r", "t", "b", "o", "o", "k">>

K_annual == <<"a", "n", "n", "u", "a", "l">>

K_report == <<"r", "e", "p", "o", "r", "t">>

K_investment == <<"i", "n", "v", "e", "s", "t", "m", "e", "n", "t">>

K_cafr == <<"c", "a", "f", "r">>

K_acfr == <<"a", "c", "f", "r">>

K_introductory == <<"i", "n", "t", "r", "o", "d", "u", "c", "t", "o", "r", "y">>

K_intro == <<"i", "n", "t", "r", "o">>

K_financialsection == <<"f", "i", "n", "a", "n", "c", "i", "a", "l", "s", "e", "c", "t", "i", "o", "n">>

K_fy20 == <<"f", "y", "2", "0">>

K_fy19 == <<"f", "y", "1", "9">>

K_fy18 == <<"f", "y", "1", "8">>

K_2020 == <<"2", "0", "2", "0">>

K_2019 == <<"2", "0", "1", "9">>

K_2018 == <<"2", "0", "1", "8">>

\* file names of the model's PDF URLs
N_fy25_board_book == <<"F", "Y", "2", "5", "_", "B", "o", "a", "r", "d", "_", "B", "o", "o", "k">>

N_fy19_intro == <<"F", "Y", "1", "9", "_", "I", "n", "t", "r", "o", "d", "u", "c", "t", "o", "r", "y", "_", "S", "e", "c", "t", "i", "o", "n">>

N_annual_report_2023 == <<"a", "n", "n", "u", "a", "l", "-", "r", "e", "p", "o", "r", "t", "-", "2", "0", "2", "3">>

N_minutes == <<"m", "i", "n", "u", "t", "e", "s">>

N_agenda == <<"a", "g", "e", "n", "d", "a">>

N_fy2024_acfr == <<"F", "Y", "2", "0", "2", "4", "_", "A", "C", "F", "R">>

N_investment_policy == <<"i", "n", "v", "e", "s", "t", "m", "e", "n", "t", "-", "p", "o", "l", "i", "c", "y">>

N_fy24_full_book ==
    <<"F", "Y", "2", "4", "_", "B", "o", "a", "r", "d", "_", "B", "o", "o", "k", "_", "A", "n", "n", "u", "a", "l", "_", "R", "e", "p", "o", "r", "t", "_", "B", "o", "o", "k", "_", "I", "n", "v", "e", "s", "t", "m", "e", "n", "t", "_", "C", "A", "F", "R">>

N_fy18_intro_board_book ==
    <<"F", "Y", "1", "8", "_", "I", "n", "t", "r", "o", "d", "u", "c", "t", "o", "r", "y", "_", "F", "Y", "2", "3", "_", "B", "o", "a", "r", "d", "_", "B", "o", "o", "k", "_", "A", "n", "n", "u", "a", "l", "R", "e", "p", "o", "r", "t", "B", "o", "o", "k", "_", "I", "n", "v", "e", "s", "t", "m", "e", "n", "t", "_", "A", "C", "F", "R">>

N_fy19_intro_fy25_board_book ==
    <<"F", "Y", "1", "9", "_", "I", "n", "t", "r", "o", "d", "u", "c", "t", "o", "r", "y", "_", "F", "Y", "2", "5", "_", "B", "o", "a", "r", "d", "_", "B", "o", "o", "k", "_", "A", "n", "n", "u", "a", "l", "R", "e", "p", "o", "r", "t", "B", "o", "o", "k", "_", "I", "n", "v", "e", "s", "t", "m", "e", "n", "t", "_", "C", "A", "F", "R">>

N_2025_board_book_intro_2020 ==
    <<"2", "0", "2", "5", "_", "b", "o", "a", "r", "d", "_", "b", "o", "o", "k", "_", "i", "n", "t", "r", "o", "_", "2", "0", "2", "0">>

(***************************************************************************)
(* pdf_priority (782-826): base 100, lower is better.                      *)
(***************************************************************************)
BASE_SCORE == 100

\* the mutant of the old-year penalty: subtracted instead of added
pdf_priority_old_preferred(url) ==
    LET url_lower == LowerStr(url.name)
        has(k) == Contains(url_lower, k)
        flat(k) == Contains(Unjoined(url_lower), k)
    IN BASE_SCORE
       + (IF has(K_fy25) \/ has(K_fy24) \/ has(K_2025) \/ has(K_2024) THEN -50
          ELSE IF has(K_fy23) \/ has(K_2023) THEN -40
          ELSE IF has(K_fy22) \/ has(K_2022) THEN -30
          ELSE 0)
       + (IF has(K_board) /\ has(K_book) THEN -40
          ELSE IF has(K_board) THEN -25
          ELSE 0)
       + (IF flat(K_annualreportbook) THEN -30
          ELSE IF has(K_annual) /\ has(K_report) THEN -20
          ELSE 0)
       + (IF has(K_investment) THEN -15 ELSE 0)
       + (IF has(K_cafr) \/ has(K_acfr) THEN -10 ELSE 0)
       + (IF has(K_introductory) \/ has(K_intro) THEN 20 ELSE 0)
       + (IF flat(K_financialsection) THEN 10 ELSE 0)
       + (IF has(K_fy20) \/ has(K_fy19) \/ has(K_fy18) THEN -30 ELSE 0)
       + (IF has(K_2020) \/ has(K_2019) \/ has(K_2018) THEN -30 ELSE 0)

\* lines 820-824: the penalty for old years
old_year_penalty(url_lower) ==
    (IF Contains(url_lower, K_fy20) \/ Contains(url_lower, K_fy19)
        \/ Contains(url_lower, K_fy18) THEN 30 ELSE 0)
    + (IF Contains(url_lower, K_2020) \/ Contains(url_lower, K_2019)
          \/ Contains(url_lower, K_2018) THEN 30 ELSE 0)

pdf_priority(url) ==
    LET url_lower == LowerStr(url.name)
        has(k) == Contains(url_lower, k)
        flat(k) == Contains(Unjoined(url_lower), k)
    IN BASE_SCORE
       + (IF has(K_fy25) \/ has(K_fy24) \/ has(K_2025) \/ has(K_2024) THEN -50
          ELSE IF has(K_fy23) \/ has(K_2023) THEN -40
          ELSE IF has(K_fy22) \/ has(K_2022) THEN -30
          ELSE 0)
       + (IF has(K_board) /\ has(K_book) THEN -40
          ELSE IF has(K_board) THEN -25
          ELSE 0)
       + (IF flat(K_annualreportbook) THEN -30
          ELSE IF has(K_annual) /\ has(K_report) THEN -20
          ELSE 0)
       + (IF has(K_investment) THEN -15 ELSE 0)
       + (IF has(K_cafr) \/ has(K_acfr) THEN -10 ELSE 0)
       + (IF has(K_introductory) \/ has(K_intro) THEN 20 ELSE 0)
       + (IF flat(K_financialsection) THEN 10 ELSE 0)
       + old_year_penalty(url_lower)

\* line 774: the keywords that move a PDF linked from a report page to the front
IsReportLikePdf(url) ==
    LET pdf_lower == LowerStr(url.name) IN
    \/ Contains(pdf_lower, K_annual) \/ Contains(pdf_lower, K_cafr)
    \/ Contains(pdf_lower, K_investment) \/ Contains(pdf_lower, K_acfr)
    \/ Contains(pdf_lower, K_report)

\* sorted(urls, key=pdf_priority): a stable sort, written as the insertion of
\* each URL after the last URL that does not score higher
RECURSIVE insert_by_priority(_, _)
insert_by_priority(sorted, u) ==
    IF sorted = <<>> THEN <<u>>
    ELSE IF pdf_priority(sorted[Len(sorted)]) <= pdf_priority(u) THEN Append(sorted, u)
    ELSE Append(insert_by_priority(SubSeq(sorted, 1, Len(sorted) - 1), u),
                sorted[Len(sorted)])

RECURSIVE sort_loop(_, _, _)
sort_loop(urls, i, acc) ==
    IF i > Len(urls) THEN acc
    ELSE sort_loop(urls, i + 1, insert_by_priority(acc, urls[i]))

\* the mutant of the sort: the list is left in discovery order
left_unsorted(urls) == urls

sorted_by_pdf_priority(urls) == sort_loop(urls, 1, <<>>)

(***************************************************************************)
(* The path lists of web_collect.py 479-584.                               *)
(***************************************************************************)
ABOUT_PATHS ==
    <<"/about", "/about-us", "/who-we-are", "/our-story", "/company", "/overview",
      "/mission", "/what-we-do", "/organization", "/organization-overview",
      "/team", "/our-team", "/leadership", "/management", "/executive-team",
      "/board", "/board-of-trustees", "/board-of-directors", "/staff", "/people",
      "/investment-team", "/investments-team", "/investment-office",
      "/investment-committee">>

INVESTMENT_PATHS ==
    <<"/investments", "/investment", "/investment-office", "/investment-division",
      "/investment-department", "/portfolio", "/fund-portfolio",
      "/investment-portfolio", "/portfolio-overview", "/holdings", "/strategy",
      "/investment-strategy", "/asset-allocation", "/assetallocation",
      "/allocations", "/investment-philosophy", "/alternatives", "/real-assets",
      "/private-equity", "/private-markets", "/real-estate", "/hedge-funds",
      "/credit", "/private-credit", "/infrastructure", "/natural-resources",
      "/direct-investing", "/direct-investments", "/co-invest", "/co-investments",
      "/coinvest", "/coinvestments">>

POLICY_PATHS ==
    <<"/investment-policy", "/ips", "/investment-policy-statement",
      "/investment-guidelines", "/investment-principles", "/investment-committee",
      "/committees", "/governance", "/oversight", "/policies", "/rfp",
      "/requests-for-proposals", "/vendor-opportunities", "/manager-search",
      "/emerging-manager", "/emerging-managers", "/em-program", "/small-manager",
      "/diverse-manager">>

REPORT_PATHS ==
    <<"/annual-report", "/annualreports", "/reports", "/financial-reports",
      "/financials", "/publications", "/cafr", "/cafrs", "/audit-reports",
      "/actuarial-reports", "/monthly-report", "/quarterly-report",
      "/investment-reports", "/performance-reports", "/market-commentary",
      "/meetings", "/board-meetings", "/committee-meetings", "/minutes",
      "/agendas">>

MAX_TEXT_CHARS == 25000

MAX_REPORT_TEXT_CHARS == 50000

MAX_URLS_PER_BUCKET == 10

MAX_PDFS == 3

(***************************************************************************)
(* get_base_url_from_notion_page (589-628).  A property of the page is     *)
(* [set, scheme, host, slash]: whether it is filled, and the URL or domain *)
(* text it holds (slash: it ends in "/").  A base URL is [scheme, host].   *)
(***************************************************************************)
NoField == [set |-> FALSE, scheme |-> "", host |-> "", slash |-> FALSE]

\* value.rstrip("/")
RStrip(f) == [scheme |-> f.scheme, host |-> f.host]

get_base_url_from_notion_page(page) ==
    IF page.main.set THEN RStrip(page.main)
    ELSE IF page.website.set THEN RStrip(page.website)
    ELSE IF page.domain.set
         THEN IF page.domain.scheme \in {"http", "https"} THEN RStrip(page.domain)
              ELSE [scheme |-> "https", host |-> page.domain.host]
         ELSE NoBase

\* the mutant of normalize_url: the guard of line 635 left out
normalize_url_unguarded(base_url, path) == PageUrl(base_url, path)

\* normalize_url (633-637)
normalize_url(base_url, path) ==
    IF base_url = NoBase THEN EmptyUrl ELSE PageUrl(base_url, path)

Normalized(base_url, paths) == [i \in 1..Len(paths) |-> normalize_url(base_url, paths[i])]

\* a one-entry list for a URL that is set, the empty list for None or ""
Opt(u) == IF IsEmptyUrl(u) THEN <<>> ELSE <<u>>

\* the mutant of the about list: the guesses go first
about_list_guesses_first(base_url, d) ==
    unique_urls(Normalized(base_url, ABOUT_PATHS)
                \o Opt(d.about_url) \o Opt(d.team_url)
                \o (IF base_url = NoBase THEN <<>> ELSE <<PageUrl(base_url, "")>>))

\* lines 689-742: the four candidate lists, deduplicated
about_list(base_url, d) ==
    unique_urls(Opt(d.about_url) \o Opt(d.team_url)
                \o (IF base_url = NoBase THEN <<>> ELSE <<PageUrl(base_url, "")>>)
                \o Normalized(base_url, ABOUT_PATHS))

\* the mutant of the policy list: POLICY_PATHS before INVESTMENT_PATHS
policy_list_policy_first(page, base_url, d) ==
    unique_urls(Opt(page.investments) \o Opt(d.investments_url)
                \o Normalized(base_url, POLICY_PATHS)
                \o Normalized(base_url, INVESTMENT_PATHS))

policy_list(page, base_url, d) ==
    unique_urls(Opt(page.investments) \o Opt(d.investments_url)
                \o Normalized(base_url, INVESTMENT_PATHS)
                \o Normalized(base_url, POLICY_PATHS))

report_list(page, base_url, d) ==
    unique_urls((IF EndsWithPdf(page.latest) THEN <<>> ELSE Opt(page.latest))
                \o (IF EndsWithPdf(d.annual_report_url) THEN <<>> ELSE Opt(d.annual_report_url))
                \o Normalized(base_url, REPORT_PATHS))

pdf_list(page, d) ==
    unique_urls((IF EndsWithPdf(page.latest) THEN <<page.latest>> ELSE <<>>)
                \o (IF EndsWithPdf(d.annual_report_url) THEN <<d.annual_report_url>> ELSE <<>>)
                \o d.pdf_urls)

(***************************************************************************)
(* trim_text (652-657) on " ".join(texts): whitespace runs collapse (each  *)
(* text loses its surplus whitespace, the joining space stays) and the     *)
(* result is cut to limit.  The result is the texts that still have a      *)
(* character in it, in order, with the lengths left to them, and its len.  *)
(***************************************************************************)
RECURSIVE CollapsedLen(_, _)
CollapsedLen(texts, i) ==
    IF i > Len(texts) THEN 0
    ELSE (IF i > 1 THEN 1 ELSE 0) + (texts[i].len - texts[i].ws) + CollapsedLen(texts, i + 1)

RECURSIVE cut_texts(_, _, _)
cut_texts(texts, i, room) ==
    IF i > Len(texts) THEN <<>>
    ELSE LET sep == IF i > 1 THEN 1 ELSE 0
             n == texts[i].len - texts[i].ws
         IN IF room <= sep THEN <<>>
            ELSE <<[kind |-> texts[i].kind, len |-> Min(n, room - sep)]>>
                 \o cut_texts(texts, i + 1, room - sep - n)

\* the mutant of the cut: text[:limit] left out
trim_text_uncut(texts, limit) ==
    [chunks |-> cut_texts(texts, 1, CollapsedLen(texts, 1)), len |-> CollapsedLen(texts, 1)]

trim_text(texts, limit) ==
    [chunks |-> cut_texts(texts, 1, limit), len |-> Min(limit, CollapsedLen(texts, 1))]

(***************************************************************************)
(* web_search.py.  search_google (14-35) sends no request without a key    *)
(* and returns [] on any failure.  enrich_allocator_with_search (166-213)  *)
(* runs the queries of find_investment_pages (four, and three more with a  *)
(* domain, cut to six) and seven additional ones; serp is what the         *)
(* provider's answers categorise to.  None is EmptyUrl.                    *)
(***************************************************************************)
BASE_QUERIES == 4

SITE_QUERIES == 3

MAX_QUERIES == 6

ADDITIONAL_QUERIES == 7

MAX_SNIPPETS == 20

EmptyDiscovery ==
    [investments_url |-> EmptyUrl, annual_report_url |-> EmptyUrl,
     about_url |-> EmptyUrl, team_url |-> EmptyUrl, pdf_urls |-> <<>>,
     search_snippets |-> <<>>]

\* allocator_pipeline.py 36-63: the host of Main Website, else the Domain text
extract_domain(page) ==
    IF page.main.set THEN page.main.host
    ELSE IF page.domain.set THEN page.domain.host
    ELSE ""

enrich_allocator_with_search(has_key, domain, serp) ==
    IF ~has_key THEN [pages |-> EmptyDiscovery, posts |-> 0]
    ELSE [pages |-> [serp EXCEPT !.search_snippets =
                        SubSeq(@, 1, Min(MAX_SNIPPETS, Len(@)))],
          posts |-> Min(MAX_QUERIES, BASE_QUERIES + (IF domain = "" THEN 0 ELSE SITE_QUERIES))
                    + ADDITIONAL_QUERIES]

(***************************************************************************)
(* collect_web_text (662-850), fetch by fetch.                             *)
(***************************************************************************)
\* the mutant of the cap: a loop goes through its whole list
StageCap_whole_list(urls) == Len(urls)

StageCap(urls) == Min(MAX_URLS_PER_BUCKET, Len(urls))

Members(list) == {list[i] : i \in 1..Len(list)}

\* lines 761-763: PDFs linked from a policy page go to the end of the list
RECURSIVE append_found(_, _, _)
append_found(pdf_urls, found, i) ==
    IF i > Len(found) THEN pdf_urls
    ELSE append_found(IF \E k \in 1..Len(pdf_urls) : pdf_urls[k] = found[i]
                      THEN pdf_urls ELSE Append(pdf_urls, found[i]),
                      found, i + 1)

\* lines 771-778: PDFs linked from a report page go to the front when their
\* URL holds one of the report keywords, to the end otherwise
RECURSIVE place_found(_, _, _)
place_found(pdf_urls, found, i) ==
    IF i > Len(found) THEN pdf_urls
    ELSE place_found(IF \E k \in 1..Len(pdf_urls) : pdf_urls[k] = found[i]
                     THEN pdf_urls
                     ELSE IF IsReportLikePdf(found[i]) THEN <<found[i]>> \o pdf_urls
                     ELSE Append(pdf_urls, found[i]),
                     found, i + 1)

\* the orders in which list(set(...)) can hand out the links of a page
Orders(S) == {f \in [1..Cardinality(S) -> S] : \A x \in S : \E i \in DOMAIN f : f[i] = x}

\* where the run goes after the fetch at position idx of the loop `stage`
\* ("start": before the first loop): on in the loop, to the next loop that
\* has a URL, or through line 828 to the PDF loop
Continue(stage, idx, about, policy, report, pdf_urls) ==
    LET rank == CASE stage = "about" -> 1 [] stage = "policy" -> 2
                  [] stage = "report" -> 3 [] OTHER -> 0
        cap(k) == CASE k = 1 -> StageCap(about) [] k = 2 -> StageCap(policy)
                    [] OTHER -> StageCap(report)
        name(k) == CASE k = 1 -> "about" [] k = 2 -> "policy" [] OTHER -> "report"
        later == {k \in (rank + 1)..3 : cap(k) > 0}
    IN IF rank > 0 /\ idx < cap(rank)
       THEN [pc |-> stage, idx |-> idx + 1, pdf_urls |-> pdf_urls, cands |-> <<>>]
       ELSE IF later # {}
       THEN [pc |-> name(CHOOSE k \in later : \A j \in later : k <= j), idx |-> 1,
             pdf_urls |-> pdf_urls, cands |-> <<>>]
       ELSE The({[pc |-> IF sorted = <<>> THEN "collected" ELSE "pdf", idx |-> 1,
                  pdf_urls |-> sorted, cands |-> unique_urls(pdf_urls)] :
                    sorted \in {sorted_by_pdf_priority(unique_urls(pdf_urls))}})

\* "\n\n".join(snippets), allocator_pipeline.py 87
RECURSIVE SumLen(_, _)
SumLen(texts, i) == IF i > Len(texts) THEN 0 ELSE texts[i].len + SumLen(texts, i + 1)

snippet_text(snippets) ==
    [chunks |-> snippets, len |-> SumLen(snippets, 1) + 2 * Max(0, Len(snippets) - 1)]

\* lines 844-850
collected_texts(about_texts, policy_texts, report_texts, pdf_texts) ==
    LET all_report_texts == pdf_texts \o report_texts IN
    [k \in {"about_text", "policy_text", "report_text"} |->
        CASE k = "about_text" -> trim_text(about_texts, MAX_TEXT_CHARS)
          [] k = "policy_text" -> trim_text(policy_texts, MAX_TEXT_CHARS)
          [] OTHER -> trim_text(all_report_texts, MAX_REPORT_TEXT_CHARS)]

(***************************************************************************)
(* Spec: one run of run_allocator (allocator_pipeline.py 66-124) on a      *)
(* subject page of PageSet, with or without a search key, every fetch      *)
(* answered by a server of RunEnvs.  At most MaxOk fetches of a run get an *)
(* answer with a body; the others fail.                                    *)
(***************************************************************************)
MaxOk == 2

Field(scheme, host, slash) == [set |-> TRUE, scheme |-> scheme, host |-> host, slash |-> slash]

PageSet ==
    {\* only a root domain
     [main |-> NoField, website |-> NoField, domain |-> Field("", "a.org", FALSE),
      investments |-> EmptyUrl, latest |-> EmptyUrl],
     \* Main Website with a trailing slash, both explicit URLs, the report a PDF
     [main |-> Field("https", "a.org", TRUE), website |-> NoField, domain |-> NoField,
      investments |-> PageUrl(Https("a.org"), "/investment-office"),
      latest |-> PdfUrl(Https("a.org"), N_annual_report_2023)],
     \* Website only, the latest report an HTML page elsewhere
     [main |-> NoField, website |-> Field("https", "a.org", FALSE), domain |-> NoField,
      investments |-> EmptyUrl, latest |-> PageUrl(Https("b.org"), "/latest")],
     \* nothing but a latest report
     [main |-> NoField, website |-> NoField, domain |-> NoField,
      investments |-> EmptyUrl, latest |-> PdfUrl(Https("b.org"), N_minutes)]}

Snippet(n) == [kind |-> "snippet", len |-> n]

SerpSet ==
    {EmptyDiscovery,
     [investments_url |-> PageUrl(Https("a.org"), "/investments"),
      annual_report_url |-> PageUrl(Https("a.org"), "/financials/acfr"),
      about_url |-> PageUrl(Https("a.org"), "/about"),
      team_url |-> EmptyUrl,
      pdf_urls |-> <<PdfUrl(Https("a.org"), N_minutes), PdfUrl(Https("a.org"), N_fy19_intro)>>,
      search_snippets |-> <<Snippet(120), Snippet(80)>>],
     [EmptyDiscovery EXCEPT
        !.annual_report_url = PdfUrl(Https("a.org"), N_annual_report_2023),
        !.pdf_urls = <<PdfUrl(Https("a.org"), N_minutes), PdfUrl(Https("a.org"), N_agenda),
                       PdfUrl(Https("a.org"), N_fy19_intro),
                       PdfUrl(Https("a.org"), N_investment_policy)>>],
     \* one result whose URL holds "about" and "investment" fills two slots
     \* (web_search.py 135-150)
     [EmptyDiscovery EXCEPT
        !.investments_url = PageUrl(Https("a.org"), "/about/investments"),
        !.about_url = PageUrl(Https("a.org"), "/about/investments")]}

HeadAbsent == [exc |-> FALSE, cl |-> [kind |-> "absent", val |-> 0]]

HeadOversize == [exc |-> FALSE, cl |-> [kind |-> "int", val |-> MAX_PDF_BYTES + 1]]

Answer(ctype, payload) == [exc |-> FALSE, status |-> HTTP_OK, ctype |-> ctype, payload |-> payload]

Href(abs, base, name) == [abs |-> abs, base |-> base, name |-> name]

LongDoc == [SmallDoc(TRUE, TRUE, FALSE) EXCEPT !.pageLen = 30000]

\* the server that does not answer
DownEnv ==
    [clientExc |-> FALSE, head |-> HeadAbsent,
     get |-> [exc |-> TRUE, status |-> 0, ctype |-> "", payload |-> EmptyPayload]]

AnswerEnvs ==
    {[clientExc |-> FALSE, head |-> HeadAbsent, get |-> Answer("text/html", HtmlPayload(2048, h))] :
        h \in {SmallHtml(700, {}), SmallHtml(30000, {}),
               SmallHtml(700, {Href(FALSE, NoBase, N_fy25_board_book)}),
               SmallHtml(700, {Href(FALSE, NoBase, N_agenda),
                               Href(TRUE, Https("cdn.org"), N_fy2024_acfr)})}}
    \cup {[clientExc |-> FALSE, head |-> HeadAbsent, get |-> Answer("application/pdf", PdfPayload(2048, d))] :
            d \in {SmallDoc(TRUE, TRUE, FALSE), LongDoc, SmallDoc(TRUE, FALSE, FALSE)}}
    \cup {[clientExc |-> FALSE, head |-> HeadOversize,
           get |-> Answer("application/pdf", PdfPayload(MAX_PDF_BYTES + 1, SmallDoc(TRUE, TRUE, FALSE)))]}

RunEnvs(ok) == IF ok < MaxOk THEN {DownEnv} \cup AnswerEnvs ELSE {DownEnv}

Answered(env) == IF env = DownEnv THEN 0 ELSE 1

Init ==
    /\ SortIdle
    /\ SearchIdle
    /\ u_urls = <<>> /\ u_out = <<>> /\ u_pc = "idle"
    /\ PdfIdle
    /\ GetIdle
    /\ m_page \in PageSet
    /\ m_key \in BOOLEAN
    /\ m_plumber \in BOOLEAN
    /\ m_disc = EmptyDiscovery
    /\ m_posts = 0
    /\ m_pc = "start"
    /\ m_idx = 0
    /\ m_ok = 0
    /\ m_about_urls = <<>> /\ m_policy_urls = <<>> /\ m_report_urls = <<>>
    /\ m_pdf_urls = <<>> /\ m_cands = <<>>
    /\ m_about_texts = <<>> /\ m_policy_texts = <<>> /\ m_report_texts = <<>>
    /\ m_pdf_texts = <<>>
    /\ m_log = <<>>
    /\ m_linked = {} /\ m_failed = {}
    /\ m_texts = <<>>

\* run_allocator 75-82 and collect_web_text 678-747: the searches, the four
\* lists, and the position before the first fetch
Begin ==
    /\ m_pc = "start"
    /\ \E serp \in SerpSet :
         \E s \in {enrich_allocator_with_search(m_key, extract_domain(m_page), serp)} :
         \E base_url \in {get_base_url_from_notion_page(m_page)} :
         \E about \in {about_list(base_url, s.pages)} :
         \E policy \in {policy_list(m_page, base_url, s.pages)} :
         \E report \in {report_list(m_page, base_url, s.pages)} :
         \E pdfs \in {pdf_list(m_page, s.pages)} :
         \E c \in {Continue("start", 0, about, policy, report, pdfs)} :
            /\ m_disc' = s.pages
            /\ m_posts' = s.posts
            /\ m_about_urls' = about
            /\ m_policy_urls' = policy
            /\ m_report_urls' = report
            /\ m_pdf_urls' = c.pdf_urls
            /\ m_cands' = c.cands
            /\ m_pc' = c.pc
            /\ m_idx' = c.idx
    /\ UNCHANGED <<m_page, m_key, m_plumber, m_ok, m_about_texts, m_policy_texts,
                   m_report_texts, m_pdf_texts, m_log, m_linked, m_failed, m_texts,
                   uvars, pvars, gvars, svars, qvars>>

\* the URLs that the loops after `stage` are still to fetch
ListedLater(stage) ==
    (IF stage = "about"
     THEN Members(SubSeq(m_policy_urls, 1, StageCap(m_policy_urls))) ELSE {})
    \cup (IF stage \in {"about", "policy"}
          THEN Members(SubSeq(m_report_urls, 1, StageCap(m_report_urls))) ELSE {})
    \cup (IF stage # "pdf" THEN Members(m_pdf_urls) ELSE {})

\* the fetch of url in the loop `stage` gave the text txt
NoteFailure(stage, url, txt) ==
    m_failed' = IF txt.len = 0 THEN m_failed \cup ({url} \cap ListedLater(stage))
                ELSE m_failed

\* an exception leaves collect_web_text: run_allocator 114-124
Failed(stage, url) ==
    /\ m_pc' = "failed"
    /\ m_log' = Append(m_log, [stage |-> stage, url |-> url, again |-> url \in m_failed])
    /\ m_failed' = m_failed \cup ({url} \cap ListedLater(stage))
    /\ UNCHANGED <<m_linked, m_idx, m_pdf_urls, m_cands, m_about_texts, m_policy_texts,
                   m_report_texts, m_pdf_texts>>

\* `if txt: texts.append(txt)`
Kept(texts, txt) == IF txt.len > 0 THEN Append(texts, txt) ELSE texts

\* lines 750-753
FetchAbout ==
    /\ m_pc = "about"
    /\ \E env \in RunEnvs(m_ok) :
       \E url \in {m_about_urls[m_idx]} :
       \E r \in {extract_text(url, env, m_plumber)} :
         /\ m_ok' = m_ok + Answered(env)
         /\ IF r.raised THEN Failed("about", url)
            ELSE \E c \in {Continue("about", m_idx, m_about_urls, m_policy_urls,
                                    m_report_urls, m_pdf_urls)} :
                   /\ m_about_texts' = Kept(m_about_texts, r.text)
                   /\ m_log' = Append(m_log, [stage |-> "about", url |-> url,
                                              again |-> url \in m_failed])
                   /\ NoteFailure("about", url, r.text)
                   /\ UNCHANGED m_linked
                   /\ m_pc' = c.pc /\ m_idx' = c.idx
                   /\ m_pdf_urls' = c.pdf_urls /\ m_cands' = c.cands
                   /\ UNCHANGED <<m_policy_texts, m_report_texts, m_pdf_texts>>
    /\ UNCHANGED <<m_page, m_key, m_plumber, m_disc, m_posts, m_about_urls,
                   m_policy_urls, m_report_urls, m_texts, uvars, pvars, gvars, svars, qvars>>

\* lines 756-763
FetchPolicy ==
    /\ m_pc = "policy"
    /\ \E env \in RunEnvs(m_ok) :
       \E url \in {m_policy_urls[m_idx]} :
       \E r \in {fetch_page_and_find_pdfs(url, env, m_plumber)} :
         /\ m_ok' = m_ok + Answered(env)
         /\ IF r.raised THEN Failed("policy", url)
            ELSE \E found_pdfs \in Orders(r.links) :
                 \E c \in {Continue("policy", m_idx, m_about_urls, m_policy_urls,
                                    m_report_urls, append_found(m_pdf_urls, found_pdfs, 1))} :
                   /\ m_policy_texts' = Kept(m_policy_texts, r.text)
                   /\ m_log' = Append(m_log, [stage |-> "policy", url |-> url,
                                              again |-> url \in m_failed])
                   /\ NoteFailure("policy", url, r.text)
                   /\ m_linked' = m_linked \cup r.links
                   /\ m_pc' = c.pc /\ m_idx' = c.idx
                   /\ m_pdf_urls' = c.pdf_urls /\ m_cands' = c.cands
                   /\ UNCHANGED <<m_about_texts, m_report_texts, m_pdf_texts>>
    /\ UNCHANGED <<m_page, m_key, m_plumber, m_disc, m_posts, m_about_urls,
                   m_policy_urls, m_report_urls, m_texts, uvars, pvars, gvars, svars, qvars>>

\* lines 766-778
FetchReport ==
    /\ m_pc = "report"
    /\ \E env \in RunEnvs(m_ok) :
       \E url \in {m_report_urls[m_idx]} :
       \E r \in {fetch_page_and_find_pdfs(url, env, m_plumber)} :
         /\ m_ok' = m_ok + Answered(env)
         /\ IF r.raised THEN Failed("report", url)
            ELSE \E found_pdfs \in Orders(r.links) :
                 \E c \in {Continue("report", m_idx, m_about_urls, m_policy_urls,
                                    m_report_urls, place_found(m_pdf_urls, found_pdfs, 1))} :
                   /\ m_report_texts' = Kept(m_report_texts, r.text)
                   /\ m_log' = Append(m_log, [stage |-> "report", url |-> url,
                                              again |-> url \in m_failed])
                   /\ NoteFailure("report", url, r.text)
                   /\ m_linked' = m_linked \cup r.links
                   /\ m_pc' = c.pc /\ m_idx' = c.idx
                   /\ m_pdf_urls' = c.pdf_urls /\ m_cands' = c.cands
                   /\ UNCHANGED <<m_about_texts, m_policy_texts, m_pdf_texts>>
    /\ UNCHANGED <<m_page, m_key, m_plumber, m_disc, m_posts, m_about_urls,
                   m_policy_urls, m_report_urls, m_texts, uvars, pvars, gvars, svars, qvars>>

\* lines 836-841
FetchPdf ==
    /\ m_pc = "pdf"
    /\ \E env \in RunEnvs(m_ok) :
       \E pdf_url \in {m_pdf_urls[m_idx]} :
       \E r \in {extract_text(pdf_url, env, m_plumber)} :
         /\ m_ok' = m_ok + Answered(env)
         /\ IF r.raised THEN Failed("pdf", pdf_url)
            ELSE /\ m_pdf_texts' = Kept(m_pdf_texts, r.text)
                 /\ m_log' = Append(m_log, [stage |-> "pdf", url |-> pdf_url,
                                            again |-> pdf_url \in m_failed])
                 /\ UNCHANGED <<m_linked, m_failed>>
                 /\ IF m_idx < Min(MAX_PDFS, Len(m_pdf_urls))
                    THEN m_pc' = "pdf" /\ m_idx' = m_idx + 1
                    ELSE m_pc' = "collected" /\ m_idx' = 0
                 /\ UNCHANGED <<m_pdf_urls, m_cands, m_about_texts, m_policy_texts,
                                m_report_texts>>
    /\ UNCHANGED <<m_page, m_key, m_plumber, m_disc, m_posts, m_about_urls,
                   m_policy_urls, m_report_urls, m_texts, uvars, pvars, gvars, svars, qvars>>

\* collect_web_text 844-850 and run_allocator 83-92: the mapping is built,
\* the snippets are added when there are any, and the structuring step is
\* called with it
HandOff ==
    /\ m_pc = "collected"
    /\ \E texts \in {collected_texts(m_about_texts, m_policy_texts, m_report_texts,
                                     m_pdf_texts)} :
         m_texts' = IF m_disc.search_snippets # <<>>
                    THEN ("search_context" :> snippet_text(m_disc.search_snippets)) @@ texts
                    ELSE texts
    /\ m_pc' = "handed"
    /\ UNCHANGED <<m_page, m_key, m_plumber, m_disc, m_posts, m_idx, m_ok, m_about_urls,
                   m_policy_urls, m_report_urls, m_pdf_urls, m_cands, m_about_texts,
                   m_policy_texts, m_report_texts, m_pdf_texts, m_log, m_linked, m_failed,
                   uvars, pvars, gvars, svars, qvars>>

Next == Begin \/ FetchAbout \/ FetchPolicy \/ FetchReport \/ FetchPdf \/ HandOff

Spec == Init /\ [][Next]_vars

(***************************************************************************)
(* Properties of a run.                                                    *)
(***************************************************************************)
Handed == m_pc = "handed"

\* C1: for every subject page, discovery and outcome of the fetches, the
\* about_text and policy_text that collect_web_text returns are at most
\* 25000 characters long and the report_text at most 50000.
C1_TextsWithinLimits ==
    Handed =>
        /\ m_texts["about_text"].len <= 25000
        /\ m_texts["policy_text"].len <= 25000
        /\ m_texts["report_text"].len <= 50000
        /\ \A k \in {"about_text", "policy_text", "report_text"} :
             SumLen(m_texts[k].chunks, 1) + Max(0, Len(m_texts[k].chunks) - 1)
                <= m_texts[k].len

\* a run in which the about texts and the report texts were both longer than
\* their limits and were cut to exactly the limits
C1_Witness ==
    /\ Handed
    /\ CollapsedLen(m_about_texts, 1) > 25000
    /\ m_texts["about_text"].len = 25000
    /\ CollapsedLen(m_pdf_texts \o m_report_texts, 1) > 50000
    /\ m_texts["report_text"].len = 50000

\* C2: in the returned report_text every text extracted from a PDF precedes
\* every text extracted from an HTML page, also when the PDF came from a
\* report-bucket URL that served a PDF.
C2_PdfTextFirst ==
    Handed =>
        LET chunks == m_texts["report_text"].chunks IN
        \A i \in 1..Len(chunks) : \A j \in (i + 1)..Len(chunks) :
            ~(chunks[i].kind = "html" /\ chunks[j].kind = "pdf")

RootDomainOnly(page) ==
    /\ ~page.main.set /\ ~page.website.set /\ page.domain.set
    /\ IsEmptyUrl(page.investments) /\ IsEmptyUrl(page.latest)

\* C9: a run for a subject with only a root domain and no search key ends
\* without an exception, in the hand-off of a mapping with the keys
\* about_text, policy_text, report_text and search_context, the last one
\* empty, and sends no search request.
C9_RootOnlyNoKeyHandsOff ==
    (RootDomainOnly(m_page) /\ ~m_key /\ m_pc \in {"handed", "failed"}) =>
        /\ Handed
        /\ {"about_text", "policy_text", "report_text", "search_context"}
              \subseteq DOMAIN m_texts
        /\ m_texts["search_context"].len = 0
        /\ m_posts = 0

IsPdfFetch(e) == e.stage = "pdf"

\* the URLs the PDF loop has fetched, in order
PdfFetched == [i \in 1..Len(SelectSeq(m_log, IsPdfFetch)) |-> SelectSeq(m_log, IsPdfFetch)[i].url]

PosIn(list, u) == CHOOSE i \in 1..Len(list) : list[i] = u

\* u goes before v in the list sorted ascending by pdf_priority, ties in the
\* order of the list that was sorted
Before(u, v) ==
    \/ pdf_priority(u) < pdf_priority(v)
    \/ pdf_priority(u) = pdf_priority(v) /\ PosIn(m_cands, u) < PosIn(m_cands, v)

\* C10: the PDF loop fetches at most 3 URLs, and once it is through they are
\* the first 3 of the deduplicated candidates in ascending pdf_priority: no
\* fetched URL has a candidate left unfetched that scores strictly lower,
\* and equal scores keep the order the candidates had.
C10_TopThreeByPriority ==
    /\ Len(PdfFetched) <= 3
    /\ (m_pc \in {"collected", "handed"}) =>
         LET F == PdfFetched
             cands == {m_cands[i] : i \in 1..Len(m_cands)}
             fetched == {F[i] : i \in 1..Len(F)}
         IN /\ Len(F) = Min(3, Len(m_cands))
            /\ Cardinality(fetched) = Len(F)
            /\ fetched \subseteq cands
            /\ \A f \in fetched : \A c \in cands \ fetched : Before(f, c)
            /\ \A i \in 1..Len(F) : \A j \in (i + 1)..Len(F) : Before(F[i], F[j])

\* a run with more than three candidates, found in an order that is not the
\* priority order, where a candidate was fetched and one of equal score not
C10_Witness ==
    /\ Handed
    /\ Len(m_cands) > 3
    /\ Len(PdfFetched) = 3
    /\ PdfFetched # SubSeq(m_cands, 1, 3)
    /\ \E i \in 1..3 : \E k \in 1..Len(m_cands) :
         /\ \A j \in 1..3 : PdfFetched[j] # m_cands[k]
         /\ pdf_priority(PdfFetched[i]) = pdf_priority(m_cands[k])

\* the run of a subject without a usable base URL, once the lists are built
NoBaseRun == get_base_url_from_notion_page(m_page) = NoBase /\ m_pc # "start"

\* the explicit and the search-discovered page URLs of the run
GivenPages ==
    {u \in {m_page.investments, m_disc.investments_url, m_disc.about_url, m_disc.team_url} :
        ~IsEmptyUrl(u)}
    \cup {u \in {m_page.latest, m_disc.annual_report_url} : ~IsEmptyUrl(u) /\ ~EndsWithPdf(u)}

\* the explicit and the search-discovered PDF URLs of the run
GivenPdfs ==
    {u \in {m_page.latest, m_disc.annual_report_url} : EndsWithPdf(u)}
    \cup Members(m_disc.pdf_urls)

\* C14: without a usable base URL no path-guessed URL and no root page is
\* fetched: the three page lists hold the explicit and the discovered URLs
\* and nothing else, every fetch of a page goes to one of them and every
\* fetch of a PDF to an explicit, discovered or linked PDF; every linked PDF
\* is among the candidates of the PDF loop, and a run that ends has fetched
\* every explicit and discovered page.
C14_NoGuessWithoutBase ==
    NoBaseRun =>
        /\ Members(m_about_urls) \cup Members(m_policy_urls) \cup Members(m_report_urls)
              = GivenPages
        /\ \A i \in 1..Len(m_log) :
             /\ ~IsEmptyUrl(m_log[i].url)
             /\ m_log[i].stage # "pdf" => m_log[i].url \in GivenPages
             /\ m_log[i].stage = "pdf" => m_log[i].url \in GivenPdfs \cup m_linked
        /\ m_pc \in {"pdf", "collected", "handed"} =>
             Members(m_cands) = GivenPdfs \cup m_linked
        /\ Handed =>
             GivenPages = {m_log[i].url : i \in {k \in 1..Len(m_log) : m_log[k].stage # "pdf"}}

\* a subject with nothing but a latest report: the discovered investments
\* page is fetched, a PDF linked from it is fetched, and so is the explicit
\* report
C14_Witness ==
    /\ NoBaseRun /\ Handed /\ m_key
    /\ \E i \in 1..Len(m_log) : \E j \in 1..Len(m_log) :
         /\ m_log[i].stage = "policy" /\ m_log[i].url = m_disc.investments_url
         /\ m_log[j].stage = "pdf" /\ m_log[j].url \in m_linked \ GivenPdfs
    /\ \E k \in 1..Len(m_log) : m_log[k].url = m_page.latest

\* C15: within one run a URL whose fetch or extraction failed is never
\* requested again, a failure adds nothing to a bucket, and the run goes on
\* to the next URL and returns the three buckets.
C15_NoRetryRunContinues ==
    /\ \A i \in 1..Len(m_log) : ~m_log[i].again
    /\ Len(m_about_texts) + Len(m_policy_texts) + Len(m_report_texts)
         + Len(m_pdf_texts) <= m_ok
    /\ m_pc # "failed"

\* the base URL of the run and its root page
RunBase == get_base_url_from_notion_page(m_page)

RootPage == IF RunBase = NoBase THEN {} ELSE {PageUrl(RunBase, "")}

StageRank(stage) ==
    CASE stage = "about" -> 1 [] stage = "policy" -> 2 [] stage = "report" -> 3 [] OTHER -> 4

StageList(stage) ==
    CASE stage = "about" -> m_about_urls [] stage = "policy" -> m_policy_urls
      [] stage = "report" -> m_report_urls [] OTHER -> m_pdf_urls

\* the URLs the loop `stage` has fetched, in order
FetchedIn(stage) ==
    LET of == SelectSeq(m_log, LAMBDA e : e.stage = stage)
    IN [i \in 1..Len(of) |-> of[i].url]

\* the explicit URLs of a bucket, and its explicit and search-discovered URLs
ExplicitOf(stage) ==
    CASE stage = "policy" -> {m_page.investments} \ {EmptyUrl}
      [] stage = "report" -> {u \in {m_page.latest} : ~IsEmptyUrl(u) /\ ~EndsWithPdf(u)}
      [] OTHER -> {}

GivenOf(stage) ==
    ExplicitOf(stage)
    \cup (CASE stage = "about" -> {m_disc.about_url, m_disc.team_url} \ {EmptyUrl}
            [] stage = "policy" -> {m_disc.investments_url} \ {EmptyUrl}
            [] OTHER -> {u \in {m_disc.annual_report_url} :
                           ~IsEmptyUrl(u) /\ ~EndsWithPdf(u)})

\* where a URL stands in the order of a list: explicit, search-discovered,
\* root page, path-guessed only
OriginRank(stage, u) ==
    IF u \in ExplicitOf(stage) THEN 1
    ELSE IF u \in GivenOf(stage) THEN 2
    ELSE IF u \in RootPage THEN 3
    ELSE 4

\* C27: the fetches of a run come one after the other in the order about,
\* policy, report, PDF; a bucket fetches its list from the front, and its
\* list holds the explicit URLs first, then the search-discovered ones, then
\* the root page, then the URLs that are only path-guessed.
C27_FetchOrder ==
    /\ \A i \in 1..(Len(m_log) - 1) :
         StageRank(m_log[i].stage) <= StageRank(m_log[i + 1].stage)
    /\ \A stage \in {"about", "policy", "report"} :
         LET F == FetchedIn(stage)
             L == StageList(stage)
         IN
         /\ Len(F) <= Len(L)
         /\ F = SubSeq(L, 1, Len(F))
         /\ m_pc # "start" =>
              /\ GivenOf(stage) \subseteq Members(L)
              /\ \A i \in 1..(Len(L) - 1) :
                   OriginRank(stage, L[i]) <= OriginRank(stage, L[i + 1])

\* a run through all four loops: the about loop fetched a discovered URL,
\* the root page and a guess, the policy loop an explicit URL, a discovered
\* one and a guess
C27_Witness ==
    /\ Handed
    /\ \A stage \in {"about", "policy", "report", "pdf"} : Len(FetchedIn(stage)) > 0
    /\ LET F == FetchedIn("about") IN
         /\ Len(F) >= 3
         /\ F[1] \in GivenOf("about") /\ F[2] \in RootPage
         /\ F[3] \notin GivenOf("about") \cup RootPage
    /\ LET F == FetchedIn("policy") IN
         /\ Len(F) >= 3
         /\ F[1] \in ExplicitOf("policy")
         /\ F[2] \in GivenOf("policy") \ ExplicitOf("policy")
         /\ F[3] \notin GivenOf("policy")

\* the URLs guessed from the four path lists
GuessedFrom(paths) == Members(Normalized(RunBase, paths)) \ {EmptyUrl}

C29_PolicyPathsNeverFetched ==
    (RunBase # NoBase /\ m_pc # "start") =>
        /\ Len(INVESTMENT_PATHS) = 32
        /\ Members(SubSeq(m_policy_urls, 1, StageCap(m_policy_urls)))
              \subseteq GivenOf("policy") \cup GuessedFrom(INVESTMENT_PATHS)
        /\ Members(FetchedIn("policy"))
              \subseteq GivenOf("policy") \cup GuessedFrom(INVESTMENT_PATHS)

\* a run with a base URL whose policy loop made its 10 fetches while the
\* guesses from POLICY_PATHS stand further down in its list
C29_Witness ==
    /\ Handed
    /\ RunBase # NoBase
    /\ Len(FetchedIn("policy")) = 10
    /\ GuessedFrom(POLICY_PATHS) \ (GivenOf("policy") \cup GuessedFrom(INVESTMENT_PATHS)) # {}
    /\ GuessedFrom(POLICY_PATHS) \subseteq Members(m_policy_urls)

(***************************************************************************)
(* sort_snippets_by_recency (web_search.py 216-265).  A snippet is [date,  *)
(* years, body]: the text between the brackets it starts with (<<>> when   *)
(* it starts with none), the years 20dd standing as words anywhere in it,  *)
(* and the rest of its text.                                               *)
(***************************************************************************)
K_day == <<"d", "a", "y">>

K_hour == <<"h", "o", "u", "r">>

K_minute == <<"m", "i", "n", "u", "t", "e">>

K_week == <<"w", "e", "e", "k">>

K_month_ago == <<"m", "o", "n", "t", "h", " ", "a", "g", "o">>

D_3_days_ago == <<"3", " ", "d", "a", "y", "s", " ", "a", "g", "o">>

D_3_months_ago == <<"3", " ", "m", "o", "n", "t", "h", "s", " ", "a", "g", "o">>

D_2019 == <<"2", "0", "1", "9">>

D_mar_2022 == <<"M", "a", "r", " ", "2", "0", "2", "2">>

D_jan_15_2025 == <<"J", "a", "n", " ", "1", "5", ",", " ", "2", "0", "2", "5">>

RECENT_YEAR == 2024

OLD_YEAR == 2020

IsDigit(c) == c \in {"0", "1", "2", "3", "4", "5", "6", "7", "8", "9"}

DigitVal(c) ==
    CASE c = "0" -> 0 [] c = "1" -> 1 [] c = "2" -> 2 [] c = "3" -> 3 [] c = "4" -> 4
      [] c = "5" -> 5 [] c = "6" -> 6 [] c = "7" -> 7 [] c = "8" -> 8 [] OTHER -> 9

\* re.search(r'20(\d{2})', date_str): the positions where "20" and two digits stand
YearMatches(s) ==
    {i \in 1..(Len(s) - 3) :
        s[i] = "2" /\ s[i + 1] = "0" /\ IsDigit(s[i + 2]) /\ IsDigit(s[i + 3])}

\* int('20' + year_match.group(1)) for the first match
FirstYear(s) ==
    LET i == CHOOSE k \in YearMatches(s) : \A j \in YearMatches(s) : k <= j
    IN 2000 + 10 * DigitVal(s[i + 2]) + DigitVal(s[i + 3])

MaxOf(S) == CHOOSE x \in S : \A y \in S : y <= x

\* lines 250-261: the years in the snippet itself, or no date detected
text_year_priority(snippet) ==
    IF snippet.years # {} /\ MaxOf(snippet.years) >= RECENT_YEAR THEN 0
    ELSE IF snippet.years # {} /\ MaxOf(snippet.years) <= OLD_YEAR THEN 2
    ELSE 1

\* extract_year(snippet)[0] (225-261)
extract_year(snippet) ==
    IF snippet.date # <<>>
    THEN LET date_str == LowerStr(snippet.date) IN
         IF \/ Contains(date_str, K_day) \/ Contains(date_str, K_hour)
            \/ Contains(date_str, K_minute) \/ Contains(date_str, K_week)
            \/ Contains(date_str, K_month_ago)
         THEN 0
         ELSE IF YearMatches(date_str) # {}
         THEN (IF FirstYear(date_str) >= RECENT_YEAR THEN 0 ELSE 2)
         ELSE text_year_priority(snippet)
    ELSE text_year_priority(snippet)

\* sorted(snippets, key=...): stable, an insertion after the last snippet
\* whose key is not higher
RECURSIVE insert_by_recency(_, _)
insert_by_recency(sorted, s) ==
    IF sorted = <<>> THEN <<s>>
    ELSE IF extract_year(sorted[Len(sorted)]) <= extract_year(s) THEN Append(sorted, s)
    ELSE Append(insert_by_recency(SubSeq(sorted, 1, Len(sorted) - 1), s),
                sorted[Len(sorted)])

RECURSIVE recency_loop(_, _, _)
recency_loop(snippets, i, acc) ==
    IF i > Len(snippets) THEN acc
    ELSE recency_loop(snippets, i + 1, insert_by_recency(acc, snippets[i]))

\* the mutant of the sort: the lists of equal priority are put together old first
sort_snippets_old_first(snippets) ==
    LET of(p) == SelectSeq(snippets, LAMBDA s : extract_year(s) = p)
    IN of(2) \o of(1) \o of(0)

sort_snippets_by_recency(snippets) == recency_loop(snippets, 1, <<>>)

(***************************************************************************)
(* SpecSort: the two sorts on bounded lists.  Prioritize is line 828 of    *)
(* web_collect.py on every list of at most MaxSort PDF URLs of SortNames,  *)
(* SortByRecency is sort_snippets_by_recency on every list of at most      *)
(* MaxSort snippets of SortSnippets.                                       *)
(***************************************************************************)
MaxSort == 3

SortNames ==
    {N_fy25_board_book, N_fy19_intro, N_fy24_full_book, N_fy18_intro_board_book,
     N_fy19_intro_fy25_board_book, N_2025_board_book_intro_2020, N_minutes, N_agenda,
     N_annual_report_2023, N_investment_policy}

\* file names that differ in their year token only: "plan_" and the year
\* written FYyy, FYyyyy or yyyy
DigitChar(d) == <<"0", "1", "2", "3", "4", "5", "6", "7", "8", "9">>[d + 1]

YearToken(form, year) ==
    LET yy == <<DigitChar((year \div 10) % 10), DigitChar(year % 10)>>
        yyyy == <<DigitChar(year \div 1000), DigitChar((year \div 100) % 10)>> \o yy
    IN CASE form = "FYyy" -> <<"F", "Y">> \o yy
         [] form = "FYyyyy" -> <<"F", "Y">> \o yyyy
         [] OTHER -> yyyy

YearName(form, year) == <<"p", "l", "a", "n", "_">> \o YearToken(form, year)

YearUrl(form, year) == PdfUrl(Https("a.org"), YearName(form, year))

YearForms ==
    {<<"FYyy", 2017>>, <<"FYyy", 2018>>, <<"FYyy", 2025>>, <<"FYyy", 2026>>,
     <<"FYyyyy", 2021>>, <<"FYyyyy", 2024>>, <<"FYyyyy", 2025>>,
     <<"yyyy", 2017>>, <<"yyyy", 2018>>, <<"yyyy", 2025>>, <<"yyyy", 2026>>}

SortUrls ==
    {PdfUrl(Https("a.org"), n) : n \in SortNames}
    \cup {YearUrl(t[1], t[2]) : t \in YearForms}

Dated(date, years, body) == [date |-> date, years |-> years, body |-> body]

SortSnippets ==
    {Dated(D_3_days_ago, {}, "AUM grew"),
     Dated(<<>>, {}, "no date here"),
     Dated(D_2019, {2019}, "old news"),
     Dated(D_jan_15_2025, {2025}, "new commitments"),
     Dated(D_3_months_ago, {}, "allocation raised"),
     Dated(<<>>, {2022}, "as of 2022"),
     Dated(<<>>, {2019, 2024}, "from 2019 to 2024"),
     Dated(<<>>, {2018}, "in 2018"),
     Dated(D_mar_2022, {2022}, "rebalanced")}

InitSort ==
    /\ RunIdle
    /\ SearchIdle
    /\ PdfIdle
    /\ GetIdle
    /\ u_urls = <<>> /\ u_out = <<>> /\ u_pc = "idle"
    /\ \/ s_kind = "pdf_urls" /\ s_in \in SeqsUpTo(SortUrls, MaxSort)
       \/ s_kind = "snippets" /\ s_in \in SeqsUpTo(SortSnippets, MaxSort)
    /\ s_out = <<>>
    /\ s_pc = "call"

Prioritize ==
    /\ s_pc = "call"
    /\ s_kind = "pdf_urls"
    /\ s_out' = sorted_by_pdf_priority(s_in)
    /\ s_pc' = "done"
    /\ UNCHANGED <<s_kind, s_in, uvars, pvars, gvars, mvars, qvars>>

SortByRecency ==
    /\ s_pc = "call"
    /\ s_kind = "snippets"
    /\ s_out' = sort_snippets_by_recency(s_in)
    /\ s_pc' = "done"
    /\ UNCHANGED <<s_kind, s_in, uvars, pvars, gvars, mvars, qvars>>

NextSort == Prioritize \/ SortByRecency

SpecSort == InitSort /\ [][NextSort]_vars

Prioritized == s_pc = "done" /\ s_kind = "pdf_urls"

\* the tokens of the URL, as pdf_priority looks for them
Carries(u, k) == Contains(LowerStr(u.name), k)

CarriesFlat(u, k) == Contains(Unjoined(LowerStr(u.name)), k)

RecentBoardBook(u) ==
    /\ Carries(u, K_fy25) \/ Carries(u, K_fy24) \/ Carries(u, K_2025) \/ Carries(u, K_2024)
    /\ Carries(u, K_board)
    /\ Carries(u, K_book)

OldIntroductory(u) ==
    /\ Carries(u, K_fy20) \/ Carries(u, K_fy19) \/ Carries(u, K_fy18)
    /\ Carries(u, K_introductory)

Penalised(u) ==
    \/ Carries(u, K_intro) \/ CarriesFlat(u, K_financialsection)
    \/ Carries(u, K_fy20) \/ Carries(u, K_fy19) \/ Carries(u, K_fy18)
    \/ Carries(u, K_2020) \/ Carries(u, K_2019) \/ Carries(u, K_2018)

\* the output is the input reordered: every URL as often as in the input
SameUrls(a, b) ==
    /\ Len(a) = Len(b)
    /\ \A x \in SeqRange(a) \cup SeqRange(b) :
         Cardinality({i \in 1..Len(a) : a[i] = x}) = Cardinality({i \in 1..Len(b) : b[i] = x})

\* C11 as claimed: the sort is ascending by score, and every URL with a recent
\* fiscal-year token, 'board' and 'book' comes out before every URL with an
\* old fiscal-year token and 'introductory', whatever the input order.
C11_BoardBookBeforeIntroductory ==
    Prioritized =>
        /\ \A i \in 1..Len(s_out) : \A j \in (i + 1)..Len(s_out) :
             pdf_priority(s_out[i]) <= pdf_priority(s_out[j])
        /\ \A i \in 1..Len(s_out) : \A j \in 1..Len(s_out) :
             (RecentBoardBook(s_out[i]) /\ OldIntroductory(s_out[j]) /\ s_out[i] # s_out[j])
                => i < j

\* C11 as amended: the sort is ascending by score, a reordering of its input;
\* every URL with a recent fiscal-year token, 'board' and 'book' and without
\* a penalised token comes out before every URL with an old fiscal-year
\* token and 'introductory' that is not itself a recent board book.
C11_CleanBoardBookBeforeIntroductory ==
    Prioritized =>
        /\ SameUrls(s_in, s_out)
        /\ \A i \in 1..Len(s_out) : \A j \in (i + 1)..Len(s_out) :
             pdf_priority(s_out[i]) <= pdf_priority(s_out[j])
        /\ \A i \in 1..Len(s_out) : \A j \in 1..Len(s_out) :
             (/\ RecentBoardBook(s_out[i]) /\ ~Penalised(s_out[i])
              /\ OldIntroductory(s_out[j]) /\ ~RecentBoardBook(s_out[j]))
                => i < j

\* FY19_Introductory_Section.pdf given before FY25_Board_Book.pdf and sorted
\* after it
C11_Witness ==
    /\ Prioritized
    /\ s_in = <<PdfUrl(Https("a.org"), N_fy19_intro), PdfUrl(Https("a.org"), N_fy25_board_book)>>
    /\ s_out = <<PdfUrl(Https("a.org"), N_fy25_board_book), PdfUrl(Https("a.org"), N_fy19_intro)>>

\* C21: of two URLs that differ only in their year token, the one with the
\* more recent year never scores higher (worse) than the one with the older
\* year, for every pair of years and each token form.
C21_RecentYearNeverWorse ==
    Prioritized =>
        \A i \in 1..Len(s_out) : \A j \in 1..Len(s_out) :
            \A a \in YearForms : \A b \in YearForms :
                (/\ s_out[i] = YearUrl(a[1], a[2]) /\ s_out[j] = YearUrl(b[1], b[2])
                 /\ a[1] = b[1] /\ a[2] > b[2])
                    => pdf_priority(s_out[i]) <= pdf_priority(s_out[j])

\* C22: a URL whose only year token denotes 2021 or later gets no old-year
\* penalty.
C22_NoPenaltyFrom2021 ==
    Prioritized =>
        \A i \in 1..Len(s_out) : \A a \in YearForms :
            (s_out[i] = YearUrl(a[1], a[2]) /\ a[2] >= 2021)
                => old_year_penalty(LowerStr(s_out[i].name)) = 0

Recency == s_pc = "done" /\ s_kind = "snippets"

\* the classification as claimed, for a current year and a staleness
\* threshold: 0 for a bracketed relative date ("... ago") or a year from the
\* year before the current one, 2 for a year up to the threshold, 1 otherwise
ClaimedPriority(snippet, current_year, threshold) ==
    IF Contains(LowerStr(snippet.date), <<"a", "g", "o">>) THEN 0
    ELSE IF snippet.years # {} /\ MaxOf(snippet.years) >= current_year - 1 THEN 0
    ELSE IF snippet.years # {} /\ MaxOf(snippet.years) <= threshold THEN 2
    ELSE 1

\* C23: for some current year and staleness threshold every snippet gets
\* priority 0 iff it has a bracketed relative date or a year from the year
\* before the current one, 2 iff its year is at or below the threshold, and
\* 1 otherwise.
C23_PriorityByDate ==
    Recency =>
        \E current_year \in 2024..2027 : \E threshold \in 2015..(current_year - 2) :
            \A i \in 1..Len(s_in) :
                extract_year(s_in[i]) = ClaimedPriority(s_in[i], current_year, threshold)

\* C12: sort_snippets_by_recency returns its input reordered, no snippet
\* altered: priority 0 before priority 1 before priority 2, snippets of equal
\* priority in their input order; an input already in that order comes back
\* unchanged.
C12_StableByRecency ==
    Recency =>
        /\ SameUrls(s_in, s_out)
        /\ \A i \in 1..Len(s_out) : \A j \in (i + 1)..Len(s_out) :
             extract_year(s_out[i]) <= extract_year(s_out[j])
        /\ \A p \in 0..2 :
             SelectSeq(s_out, LAMBDA s : extract_year(s) = p)
                = SelectSeq(s_in, LAMBDA s : extract_year(s) = p)
        /\ (\A i \in 1..Len(s_in) : \A j \in (i + 1)..Len(s_in) :
                extract_year(s_in[i]) <= extract_year(s_in[j]))
             => s_out = s_in
        /\ s_in = <<Dated(D_3_days_ago, {}, "AUM grew"), Dated(<<>>, {}, "no date here"),
                    Dated(D_2019, {2019}, "old news")>>
             => s_out = s_in

\* an old, an undated and a recent snippet given in that order come back
\* recent, undated, old
C12_Witness ==
    /\ Recency
    /\ s_in = <<Dated(D_2019, {2019}, "old news"), Dated(<<>>, {}, "no date here"),
                Dated(D_3_days_ago, {}, "AUM grew")>>
    /\ s_out = <<Dated(D_3_days_ago, {}, "AUM grew"), Dated(<<>>, {}, "no date here"),
                 Dated(D_2019, {2019}, "old news")>>

(***************************************************************************)
(* find_investment_pages (web_search.py 38-163) and the second pass of     *)
(* enrich_allocator_with_search (166-213), on what the searches return.    *)
(* A result is [link, pdf, relevant, url_slots, title_slots, snippet,      *)
(* date]: its URL (<<>> when it has none), whether the URL ends in .pdf,   *)
(* whether the PDF is taken for one of the subject (108-114), the slots    *)
(* with a keyword in the URL, the slots with a keyword in the title, its   *)
(* snippet and its date (<<>> when it has none).  A snippet is [body,      *)
(* years, first, second, long]: its text, the years standing in it,        *)
(* whether it holds a keyword of the first pass (125), of the second pass  *)
(* (192-197), and whether it is longer than 50 characters.  A kept snippet *)
(* is [date, years, body, pass]; pass notes the pass that kept it.         *)
(***************************************************************************)
Slots == {"investments_url", "annual_report_url", "about_url", "team_url"}

\* the slots that are also matched on the title (138, 144, 155): all but about_url
TITLE_SLOTS == {"investments_url", "annual_report_url", "team_url"}

FIRST_PASS_SNIPPETS == 10

NoPages ==
    [investments_url |-> <<>>, annual_report_url |-> <<>>, about_url |-> <<>>,
     team_url |-> <<>>, pdf_urls |-> <<>>, search_snippets |-> <<>>]

\* lines 83-89: the results with a URL, each URL once, the first result of it
RECURSIVE dedup_results(_, _, _)
dedup_results(all_results, i, seen_urls) ==
    IF i > Len(all_results) THEN <<>>
    ELSE IF all_results[i].link # <<>> /\ all_results[i].link \notin seen_urls
    THEN <<all_results[i]>>
         \o dedup_results(all_results, i + 1, seen_urls \cup {all_results[i].link})
    ELSE dedup_results(all_results, i + 1, seen_urls)

\* the years 20dd in a date
DateYears(date) ==
    {2000 + 10 * DigitVal(date[i + 2]) + DigitVal(date[i + 3]) : i \in YearMatches(date)}

\* f"[{date_str}] {snippet}", or the snippet when the result has no date
kept_snippet(r, pass) ==
    [date |-> r.date, years |-> r.snippet.years \cup DateYears(r.date),
     body |-> r.snippet.body, pass |-> pass]

\* lines 98-156 for one result
categorize_one(result, r) ==
    [k \in DOMAIN result |->
        CASE k = "pdf_urls" ->
               IF r.pdf /\ r.relevant THEN Append(result.pdf_urls, r.link)
               ELSE result.pdf_urls
          [] k = "search_snippets" ->
               IF r.snippet.first THEN Append(result.search_snippets, kept_snippet(r, 1))
               ELSE result.search_snippets
          [] OTHER ->
               IF /\ ~r.pdf
                  /\ result[k] = <<>>
                  /\ k \in r.url_slots \/ (k \in TITLE_SLOTS /\ k \in r.title_slots)
               THEN r.link
               ELSE result[k]]

RECURSIVE categorize(_, _, _)
categorize(results, i, result) ==
    IF i > Len(results) THEN result
    ELSE categorize(results, i + 1, categorize_one(result, results[i]))

find_investment_pages(all_results) ==
    LET result == categorize(dedup_results(all_results, 1, {}), 1, NoPages) IN
    [result EXCEPT !.search_snippets = SubSeq(@, 1, Min(FIRST_PASS_SNIPPETS, Len(@)))]

\* lines 184-203: the snippets of the second pass that are kept
RECURSIVE harvest(_, _, _)
harvest(results, i, snippets) ==
    IF i > Len(results) THEN snippets
    ELSE LET r == results[i]
             known == \E k \in 1..Len(snippets) :
                         snippets[k].date = <<>> /\ snippets[k].body = r.snippet.body
         IN harvest(results, i + 1,
                    IF r.snippet.body # "" /\ r.snippet.long /\ r.snippet.second /\ ~known
                    THEN Append(snippets, kept_snippet(r, 2))
                    ELSE snippets)

\* the mutant of the second pass: its results are categorised as well
second_pass_categorizing(pages, results) ==
    [categorize(dedup_results(results, 1, {}), 1, pages) EXCEPT
        !.search_snippets = harvest(results, 1, pages.search_snippets)]

\* lines 184-203
second_pass(pages, results) ==
    [pages EXCEPT !.search_snippets = harvest(results, 1, @)]

\* enrich_allocator_with_search (166-213) after find_investment_pages
sort_and_cap(pages) ==
    LET sorted == sort_snippets_by_recency(pages.search_snippets) IN
    [pages EXCEPT !.search_snippets = SubSeq(sorted, 1, Min(MAX_SNIPPETS, Len(sorted)))]

(***************************************************************************)
(* SpecSearch: one discovery.  The first pass gets up to MaxResults        *)
(* results, then none or MaxFill results with old snippets, then none or   *)
(* one more; the second pass gets up to MaxResults results.                *)
(***************************************************************************)
MaxResults == 2

MaxFill == 10

Raw(body, years, first, second, long) ==
    [body |-> body, years |-> years, first |-> first, second |-> second, long |-> long]

NoSnippet == Raw("", {}, FALSE, FALSE, FALSE)

Result(link, pdf, relevant, url_slots, title_slots, snippet, date) ==
    [link |-> link, pdf |-> pdf, relevant |-> relevant, url_slots |-> url_slots,
     title_slots |-> title_slots, snippet |-> snippet, date |-> date]

R_investments ==
    Result(<<"u", 1>>, FALSE, FALSE, {"investments_url"}, {},
           Raw("commits $50 million to private equity", {}, TRUE, TRUE, TRUE), D_3_days_ago)

R_about_title ==
    Result(<<"u", 2>>, FALSE, FALSE, {}, {"about_url"}, NoSnippet, <<>>)

R_about_investments ==
    Result(<<"u", 3>>, FALSE, FALSE, {"about_url", "investments_url"}, {},
           Raw("AUM of $2 billion", {}, TRUE, TRUE, FALSE), <<>>)

R_report_pdf ==
    Result(<<"u", 4>>, TRUE, TRUE, {"annual_report_url"}, {"annual_report_url"},
           NoSnippet, <<>>)

R_investments_again ==
    Result(<<"u", 1>>, FALSE, FALSE, {"investments_url"}, {"team_url"},
           Raw("contact us", {}, FALSE, FALSE, FALSE), <<>>)

R_report_title ==
    Result(<<"u", 5>>, FALSE, FALSE, {}, {"annual_report_url", "team_url"},
           Raw("portfolio rebalanced", {}, TRUE, FALSE, FALSE), D_mar_2022)

R_no_link ==
    Result(<<>>, FALSE, FALSE, {}, {"investments_url"}, NoSnippet, <<>>)

FirstResults ==
    {R_investments, R_about_title, R_about_investments, R_report_pdf,
     R_investments_again, R_report_title, R_no_link}

R_team ==
    Result(<<"u", 7>>, FALSE, FALSE, {"team_url"}, {},
           Raw("the CIO allocated $100 million to real assets", {}, FALSE, TRUE, TRUE),
           D_3_months_ago)

R_short ==
    Result(<<"u", 8>>, FALSE, FALSE, {}, {}, Raw("AUM of $2 billion", {}, TRUE, TRUE, FALSE),
           <<>>)

R_known ==
    Result(<<"u", 9>>, FALSE, FALSE, {"about_url"}, {},
           Raw("portfolio of $3 billion as of 2018, consultant Callan", {2018}, TRUE, TRUE, TRUE),
           <<>>)

R_new_pdf ==
    Result(<<"u", 10>>, TRUE, TRUE, {}, {},
           Raw("hedge fund allocation raised in 2025 by the board", {2025}, TRUE, TRUE, TRUE),
           <<>>)

SecondResults == {R_team, R_short, R_known, R_new_pdf}

\* n results of n different URLs, each with the same old, qualifying snippet
Filler(n) ==
    [i \in 1..n |->
        Result(<<"f", i>>, FALSE, FALSE, {}, {},
               Raw("assets in 2019", {2019}, TRUE, FALSE, FALSE), D_2019)]

FirstLists ==
    {pre \o Filler(n) \o suf :
        pre \in SeqsUpTo(FirstResults \cup {R_known}, MaxResults),
        n \in {0, MaxFill},
        suf \in {<<>>, <<R_investments>>, <<R_about_title>>}}

InitSearch ==
    /\ RunIdle
    /\ SortIdle
    /\ PdfIdle
    /\ GetIdle
    /\ u_urls = <<>> /\ u_out = <<>> /\ u_pc = "idle"
    /\ q_first \in FirstLists
    /\ q_second \in SeqsUpTo(SecondResults, MaxResults)
    /\ q_found = [set |-> FALSE]
    /\ q_pages = [set |-> FALSE]
    /\ q_pc = "call"

\* line 171
FindInvestmentPages ==
    /\ q_pc = "call"
    /\ q_found' = find_investment_pages(q_first)
    /\ q_pc' = "found"
    /\ UNCHANGED <<q_first, q_second, q_pages, uvars, pvars, gvars, mvars, svars>>

\* lines 173-213
AdditionalSearches ==
    /\ q_pc = "found"
    /\ q_pages' = sort_and_cap(second_pass(q_found, q_second))
    /\ q_pc' = "done"
    /\ UNCHANGED <<q_first, q_second, q_found, uvars, pvars, gvars, mvars, svars>>

NextSearch == FindInvestmentPages \/ AdditionalSearches

SpecSearch == InitSearch /\ [][NextSearch]_vars

\* the results of the first pass that the deduplication keeps
FirstOfUrl ==
    {i \in 1..Len(q_first) :
        q_first[i].link # <<>> /\ \A j \in 1..(i - 1) : q_first[j].link # q_first[i].link}

\* C24: each slot holds the URL of the first non-PDF result, in merged order
\* after the deduplication, with a keyword of the slot in its URL or title,
\* and nothing when there is none; a .pdf result fills no slot.
C24_FirstMatchFillsSlot ==
    q_pc \in {"found", "done"} =>
        \A k \in Slots :
            LET cands == {i \in FirstOfUrl :
                            ~q_first[i].pdf
                            /\ k \in q_first[i].url_slots \cup q_first[i].title_slots}
            IN q_found[k] = IF cands = {} THEN <<>>
                            ELSE q_first[CHOOSE i \in cands : \A j \in cands : i <= j].link

\* C25: the second pass changes search_snippets only: the four slots and
\* pdf_urls of the result are those of the first pass.
C25_SecondPassSnippetsOnly ==
    q_pc = "done" =>
        \A k \in Slots \cup {"pdf_urls"} : q_pages[k] = q_found[k]

\* the second pass returned a page that would fill the empty team slot and a
\* relevant PDF, and added a snippet
C25_Witness ==
    /\ q_pc = "done"
    /\ q_found.team_url = <<>>
    /\ \E i \in 1..Len(q_second) : q_second[i] = R_team
    /\ \E i \in 1..Len(q_second) : q_second[i] = R_new_pdf
    /\ Len(q_pages.search_snippets) > Len(q_found.search_snippets)

\* what a kept snippet reads
SnippetText(s) == [date |-> s.date, years |-> s.years, body |-> s.body]

\* the snippets that qualify: of the deduplicated results of the first pass,
\* and of the results of the second pass
Collected ==
    {SnippetText(kept_snippet(q_first[i], 1)) :
        i \in {k \in FirstOfUrl : q_first[k].snippet.first}}
    \cup {SnippetText(kept_snippet(q_second[i], 2)) :
            i \in {k \in 1..Len(q_second) :
                     q_second[k].snippet.long /\ q_second[k].snippet.second}}

\* C26: at most 20 snippets, in the order of their recency priority, each
\* with a keyword of the pass that kept it, and no collected snippet is left
\* out while a snippet of strictly worse priority is in the list.
C26_SnippetsCappedAfterOrdering ==
    q_pc = "done" =>
        LET out == q_pages.search_snippets IN
        /\ Len(out) <= 20
        /\ \A i \in 1..Len(out) : \A j \in (i + 1)..Len(out) :
             extract_year(out[i]) <= extract_year(out[j])
        /\ \A i \in 1..Len(out) :
             \E r \in Members(q_first) \cup Members(q_second) :
                /\ out[i] = kept_snippet(r, out[i].pass)
                /\ IF out[i].pass = 1 THEN r.snippet.first ELSE r.snippet.second
        /\ \A c \in Collected \ {SnippetText(out[i]) : i \in 1..Len(out)} :
             \A i \in 1..Len(out) : extract_year(out[i]) <= extract_year(c)

(***************************************************************************)
(* SpecUnique: unique_urls on every list of at most MaxLen URLs drawn from *)
(* a small set that holds the empty URL.                                   *)
(***************************************************************************)
MaxLen == 4

SmallUrls ==
    {EmptyUrl, PageUrl(Https("a.org"), "/about"),
     PageUrl(Https("a.org"), "/team"), PdfUrl(Https("a.org"), <<"r">>)}

InitUnique ==
    /\ RunIdle
    /\ SortIdle
    /\ SearchIdle
    /\ PdfIdle
    /\ GetIdle
    /\ u_urls \in SeqsUpTo(SmallUrls, MaxLen)
    /\ u_out = <<>>
    /\ u_pc = "call"

UniqueCall ==
    /\ u_pc = "call"
    /\ u_out' = unique_urls(u_urls)
    /\ u_pc' = "done"
    /\ UNCHANGED <<u_urls, pvars, gvars, mvars, svars, qvars>>

\* the caller feeds the result back in (collect_web_text dedups pdf_urls twice)
UniqueAgain ==
    /\ u_pc = "done"
    /\ u_urls' = u_out
    /\ u_out' = <<>>
    /\ u_pc' = "call"
    /\ UNCHANGED <<pvars, gvars, mvars, svars, qvars>>

NextUnique == UniqueCall \/ UniqueAgain

SpecUnique == InitUnique /\ [][NextUnique]_vars

(***************************************************************************)
(* C6: unique_urls is idempotent and order-preserving.  After a call, the  *)
(* result fed back into unique_urls is unchanged, holds no URL twice and   *)
(* no empty entry, and is exactly the first occurrence of each non-empty   *)
(* URL of the input, in input order.                                       *)
(***************************************************************************)
FirstOccurrences(urls) ==
    {i \in 1..Len(urls) :
        /\ ~IsEmptyUrl(urls[i])
        /\ \A j \in 1..(i - 1) : urls[j] # urls[i]}

KthOf(F, k) == CHOOSE i \in F : Cardinality({j \in F : j < i}) = k - 1

C6_UniqueIdempotentOrdered ==
    u_pc = "done" =>
        LET F == FirstOccurrences(u_urls) IN
        /\ unique_urls(u_out) = u_out
        /\ \A i, j \in 1..Len(u_out) : i # j => u_out[i] # u_out[j]
        /\ \A i \in 1..Len(u_out) : ~IsEmptyUrl(u_out[i])
        /\ Len(u_out) = Cardinality(F)
        /\ \A k \in 1..Len(u_out) : u_out[k] = u_urls[KthOf(F, k)]

\* a call on a list with an empty entry and a repeated URL, which dropped both
C6_Witness ==
    /\ u_pc = "done"
    /\ Len(u_urls) = MaxLen
    /\ \E i \in 1..Len(u_urls) : IsEmptyUrl(u_urls[i])
    /\ \E i, j \in 1..Len(u_urls) : i < j /\ u_urls[i] = u_urls[j] /\ ~IsEmptyUrl(u_urls[i])
    /\ Len(u_out) = 2

(***************************************************************************)
(* C7 as stated: during the extraction of one PDF the page-text reads,     *)
(* those of the investment-section locator included, never exceed the      *)
(* reader's page cap (100 table-aware, 60 fallback).                       *)
(***************************************************************************)
C7_AllReadsWithinCap ==
    p_pc = "done" =>
        /\ p_res.plumber.locReads + p_res.plumber.reads <= PLUMBER_MAX_PAGES
        /\ p_res.pypdf.locReads + p_res.pypdf.reads <= PYPDF_MAX_PAGES

(***************************************************************************)
(* C7 amended: the pages a reader selects and reads in its extraction loop *)
(* never exceed its cap (100 table-aware, 60 fallback); the locator's own  *)
(* reads come on top, at most 15 TOC pages and 90 header-scan pages, and   *)
(* the fallback reader runs no locator.                                    *)
(***************************************************************************)
C7_LoopReadsWithinCap ==
    p_pc = "done" =>
        /\ p_res.plumber.reads <= PLUMBER_MAX_PAGES
        /\ p_res.pypdf.reads <= PYPDF_MAX_PAGES
        /\ p_res.plumber.locReads <= TOC_PAGES + (SCAN_END - SCAN_START)
        /\ p_res.pypdf.locReads = 0

\* a long document with no locatable section, read by both readers: the
\* locator's reads alone pass the cap and the fallback reader's cut bites
C7_Witness ==
    /\ p_pc = "done"
    /\ p_res.plumber.locReads > PLUMBER_MAX_PAGES
    /\ p_res.plumber.reads > 0
    /\ p_res.usedPypdf /\ p_res.pypdf.reads = PYPDF_MAX_PAGES

(***************************************************************************)
(* C8 as stated: extract_text_from_pdf never raises, whatever fails while  *)
(* opening the document, counting its pages or reading a page, and gives   *)
(* the empty string when neither reader can open the document.             *)
(***************************************************************************)
C8_NeverRaises ==
    p_pc = "done" =>
        /\ ~p_res.raised
        /\ (~p_doc.empty /\ ~p_doc.plumberOpen /\ ~p_doc.pypdfOpen) => p_res.text.len = 0

(***************************************************************************)
(* Properties of the locator and of the page selection.                    *)
(***************************************************************************)
PlumberRan ==
    /\ p_pc = "done" /\ p_res.usedPlumber
    /\ p_res.plumber.opened /\ ~p_res.plumber.raised

PypdfRan ==
    /\ p_pc = "done" /\ p_res.usedPypdf
    /\ p_res.pypdf.opened /\ ~p_res.pypdf.raised

\* the TOC entries the locator can read: on one of the first 15 pages, on a
\* page with text whose read does not raise
ReadableToc ==
    {e \in p_doc.toc : e[1] < Min(15, p_doc.P) /\ e[1] \notin p_doc.err /\ ~p_doc.blank}

\* the pages 30..119 that show a section header to the locator
HeaderHits ==
    {i \in 30..(Min(120, p_doc.P) - 1) :
        i \notin p_doc.err /\ ~p_doc.blank /\ (i = p_doc.hdr \/ \E e \in p_doc.toc : e[1] = i)}

Clamp(x) == Max(0, Min(x, p_doc.P))

\* C13: a document of P pages with one TOC entry of printed page number n on
\* one of its first 15 pages, P >= n, gets a start page in [n-5, n-1] and the
\* end page min(start + 40, P).
C13_TocSectionLocated ==
    PlumberRan =>
        \A e \in ReadableToc :
            (Cardinality(ReadableToc) = 1 /\ p_doc.P >= e[2]) =>
                /\ p_res.plumber.loc.found
                /\ p_res.plumber.loc.start \in (e[2] - 5)..(e[2] - 1)
                /\ p_res.plumber.loc.end = Min(p_res.plumber.loc.start + 40, p_doc.P)

\* C16: the strategies are tried in order and the first to succeed wins: a
\* TOC match decides the section and the header scan is not used; the header
\* scan decides only when no TOC pattern matched; sampling only when both
\* found nothing.
C16_FirstStrategyWins ==
    PlumberRan =>
        /\ ReadableToc # {} => p_res.plumber.loc.via = "toc"
        /\ p_res.plumber.loc.via = "header" => ReadableToc = {}
        /\ ~p_res.plumber.loc.found => (ReadableToc = {} /\ HeaderHits = {})

\* C17: for a TOC match with page number n in a document of P pages the
\* section has start = n - 3 and end = start + 40, both clamped to the page
\* count, so 0 <= start <= end <= P.
C17_SectionClamped ==
    PlumberRan =>
        \A e \in ReadableToc :
            Cardinality(ReadableToc) = 1 =>
                /\ p_res.plumber.loc.found
                /\ p_res.plumber.loc.start = Clamp(e[2] - 3)
                /\ p_res.plumber.loc.end = Clamp(p_res.plumber.loc.start + 40)
                /\ 0 <= p_res.plumber.loc.start
                /\ p_res.plumber.loc.start <= p_res.plumber.loc.end
                /\ p_res.plumber.loc.end <= p_doc.P

FirstFifteen == 0..(Min(15, p_doc.P) - 1)

LastFive == Max(0, p_doc.P - 5)..(p_doc.P - 1)

\* pages 15..49 every 3rd, 50..99 every 2nd, 100..149 every 4th
SampledRange ==
    {i \in 0..(p_doc.P - 1) :
        \/ 15 <= i /\ i < 50 /\ (i - 15) % 3 = 0
        \/ 50 <= i /\ i < 100 /\ (i - 50) % 2 = 0
        \/ 100 <= i /\ i < 150 /\ (i - 100) % 4 = 0}

\* the n smallest members of S
Smallest(n, S) == {i \in S : Cardinality({j \in S : j < i}) < n}

\* C18: the table-aware reader reads exactly the first 15 pages, the located
\* section (the sampled pages when none is located) and the last 5 pages, at
\* most 100 pages; every index is a page of the document and the last 5
\* pages are always read.
C18_PagesRead ==
    PlumberRan =>
        LET loc == p_res.plumber.loc
            middle == IF loc.found THEN loc.start..(loc.end - 1) ELSE SampledRange
        IN /\ p_res.plumber.pages = Smallest(100, FirstFifteen \cup middle \cup LastFive)
           /\ Cardinality(p_res.plumber.pages) <= 100
           /\ p_res.plumber.pages \subseteq 0..(p_doc.P - 1)
           /\ LastFive \subseteq p_res.plumber.pages

\* a document of 150 pages or more without a section: page 148 is read as a
\* sampled page, page 16 is not read
C18_Witness ==
    /\ PlumberRan
    /\ ~p_res.plumber.loc.found
    /\ p_doc.P >= 150
    /\ 148 \in p_res.plumber.pages
    /\ 16 \notin p_res.plumber.pages

\* 5 x markers + 1 x keywords, of a page with text
ClaimedScore(i) ==
    5 * ((IF i = p_doc.hdr \/ \E e \in p_doc.toc : e[1] = i THEN 1 ELSE 0)
         + (IF i \in p_doc.alloc THEN 1 ELSE 0))
    + (IF i \in p_doc.alloc THEN 1 ELSE 0)
    + (IF i \in p_doc.kwPages THEN p_doc.kw ELSE 0)

\* C19: a read page with text is in the high-value group iff 5 x markers +
\* 1 x keywords >= 3; the output lists every high-value page, tagged with its
\* page number, before every other page, each group in ascending page order.
C19_HighValueFirst ==
    PlumberRan =>
        LET items == p_res.plumber.items
            texted == {i \in p_res.plumber.pages : i \notin p_doc.err /\ ~p_doc.blank}
        IN /\ {items[k].page : k \in 1..Len(items)} = texted
           /\ Len(items) = Cardinality(texted)
           /\ \A k \in 1..Len(items) : items[k].tagged <=> ClaimedScore(items[k].page) >= 3
           /\ \A k \in 1..Len(items) : \A l \in (k + 1)..Len(items) :
                \/ items[k].tagged /\ ~items[l].tagged
                \/ items[k].tagged = items[l].tagged /\ items[k].page < items[l].page

\* page 7 carries "asset allocation" and three more keywords and comes first,
\* tagged, before page 0 that scores 0; a page with two keywords is not tagged
C19_Witness ==
    /\ PlumberRan
    /\ 7 \in p_doc.alloc /\ 7 \in p_doc.kwPages /\ p_doc.kw = 3
    /\ Len(p_res.plumber.items) > 2
    /\ p_res.plumber.items[1] = [page |-> 7, tagged |-> TRUE]
    /\ \E k \in 2..Len(p_res.plumber.items) :
         p_res.plumber.items[k] = [page |-> 0, tagged |-> FALSE] /\ ClaimedScore(0) = 0

\* C20 as claimed: the fallback reader reads the pages the table-aware reader
\* would select (first 15, located or sampled range, last 5), limited to 60,
\* and runs only when the table-aware reader is unavailable or gave no text.
C20_SameSelectionSmallerCap ==
    PypdfRan =>
        /\ p_res.pypdf.pages =
              plumber_pages_to_read(find_investment_section_pages(p_doc, p_doc.P),
                                    p_doc.P, 60)
        /\ ~p_plumber \/ (~p_res.plumber.raised /\ p_res.plumber.len = 0)

\* C20 as amended: the fallback reader reads every page of a document of at
\* most 60 pages; of a longer one the first 15 pages, the pages from
\* max(15, P/4) to min(P, 3P/4) in steps of max(1, (length of that range)/30)
\* and the last 10 pages, limited to the 60 lowest; it runs only when the
\* table-aware reader is unavailable or gave no text.
C20_FallbackOwnSelection ==
    PypdfRan =>
        LET P == p_doc.P
            from == Max(15, P \div 4)
            to == Min(P, (3 * P) \div 4)
            step == Max(1, (to - from) \div 30)
            chosen == (0..14) \cup {i \in from..(to - 1) : (i - from) % step = 0}
                      \cup ((P - 10)..(P - 1))
        IN /\ p_res.pypdf.pages = IF P <= 60 THEN 0..(P - 1) ELSE Smallest(60, chosen)
           /\ ~p_plumber \/ (~p_res.plumber.raised /\ p_res.plumber.len = 0)

\* a document of 118 pages without text: the table-aware reader gave nothing,
\* the fallback reader read 60 pages, page 29 (where the middle range
\* starts) among them, the last page not
C20_Witness ==
    /\ PypdfRan
    /\ p_plumber /\ p_res.plumber.opened /\ p_res.plumber.len = 0
    /\ p_doc.P = 118
    /\ Cardinality(p_res.pypdf.pages) = 60
    /\ 29 \in p_res.pypdf.pages
    /\ 117 \notin p_res.pypdf.pages

NextPdf == ExtractPdfCall

SpecPdf == InitPdf /\ [][NextPdf]_vars

=============================================================================
